---- MODULE Spec2Model ----
(***************************************************************************)
(* BagsCheck: the normalization and verdict engine (analyzeToken and its   *)
(* helpers) as a state machine.  One analysis request is one behaviour:    *)
(* Init holds the raw upstream data and the clock reading, AnalyzeToken    *)
(* computes the snapshot (or raises).                                      *)
(*                                                                         *)
(* Numbers.  JavaScript numbers are IEEE doubles.  Lamport amounts and     *)
(* millisecond instants exceed 32 bits, so an integer n is kept as two     *)
(* limbs, n = hi * LimbBase + lo with 0 <= lo < LimbBase (hi carries the   *)
(* sign), which is exact for every value below 2^53 as the doubles are.    *)
(* NaN is a value of its own: every comparison with it is FALSE and every  *)
(* sum with it is NaN, as in JavaScript.  A quotient (a / b) * 100 is kept *)
(* as the exact fraction [num |-> 100 * a, den |-> b] and compared by      *)
(* cross-multiplication.                                                   *)
(*                                                                         *)
(* Strings.  A lamport string is [chars |-> a sequence of one-character    *)
(* strings], so that parseInt is computed digit by digit.                  *)
(*                                                                         *)
(* Validation and the route.  isValidTokenMint works on the same character *)
(* sequences.  The POST handler of /api/check is a second state machine    *)
(* over the same variables: Validate reads the body, the five upstream     *)
(* requests of fetchAllTokenData complete one by one in any order, and the *)
(* continuation of the handler runs analyzeToken and answers.              *)
(***************************************************************************)
EXTENDS Integers, Sequences, FiniteSets, TLC

\* ------------------------------------------------------------------ numbers

LimbBase == 10000 * 1000

NaN == [nan |-> TRUE]

Undefined == [undefined |-> TRUE]

Big(h, l) == [hi |-> h, lo |-> l]

BigOf(n) == Big(n \div LimbBase, n % LimbBase)

IsNaN(a) == a = NaN

NumAdd(a, b) ==
  IF IsNaN(a) \/ IsNaN(b) THEN NaN
  ELSE Big(a.hi + b.hi + ((a.lo + b.lo) \div LimbBase), (a.lo + b.lo) % LimbBase)

NumNeg(a) ==
  IF IsNaN(a) THEN NaN
  ELSE IF a.lo = 0 THEN Big(0 - a.hi, 0)
  ELSE Big(0 - a.hi - 1, LimbBase - a.lo)

NumSub(a, b) == NumAdd(a, NumNeg(b))

\* a * k for a small non-negative integer k (k <= 200)
NumMul(a, k) ==
  IF IsNaN(a) THEN NaN
  ELSE Big(a.hi * k + ((a.lo * k) \div LimbBase), (a.lo * k) % LimbBase)

NumLT(a, b) ==
  /\ ~IsNaN(a)
  /\ ~IsNaN(b)
  /\ \/ a.hi < b.hi
     \/ a.hi = b.hi /\ a.lo < b.lo

NumGT(a, b) == NumLT(b, a)

NumLE(a, b) == ~IsNaN(a) /\ ~IsNaN(b) /\ ~NumLT(b, a)

NumGE(a, b) == NumLE(b, a)

Zero == BigOf(0)

\* the double (a / b) * 100, for b > 0
Pct(a, b) == IF IsNaN(a) \/ IsNaN(b) THEN NaN ELSE [num |-> NumMul(a, 100), den |-> b]

PctOfInt(k) == [num |-> BigOf(k), den |-> BigOf(1)]

\* p < k, p > k, p = k for an integer constant k
PctLT(p, k) == ~IsNaN(p) /\ NumLT(p.num, NumMul(p.den, k))

PctGT(p, k) == ~IsNaN(p) /\ NumGT(p.num, NumMul(p.den, k))

PctEQ(p, k) == ~IsNaN(p) /\ p.num = NumMul(p.den, k)

\* 100 - p
PctComplement(p) ==
  IF IsNaN(p) THEN NaN ELSE [num |-> NumSub(NumMul(p.den, 100), p.num), den |-> p.den]

\* ------------------------------------------------------------------ strings

StrOf(cs) == [chars |-> cs]

DigitChars == {"0", "1", "2", "3", "4", "5", "6", "7", "8", "9"}

DigitVal(c) ==
  CASE c = "0" -> 0 [] c = "1" -> 1 [] c = "2" -> 2 [] c = "3" -> 3 [] c = "4" -> 4
    [] c = "5" -> 5 [] c = "6" -> 6 [] c = "7" -> 7 [] c = "8" -> 8 [] c = "9" -> 9

RECURSIVE SkipWhite(_)
SkipWhite(s) == IF s # << >> /\ Head(s) = " " THEN SkipWhite(Tail(s)) ELSE s

RECURSIVE ParseDigits(_, _)
ParseDigits(s, acc) ==
  IF s # << >> /\ Head(s) \in DigitChars
  THEN ParseDigits(Tail(s), NumAdd(NumMul(acc, 10), BigOf(DigitVal(Head(s)))))
  ELSE acc

\* parseInt(s, 10): leading white space, an optional sign, then the longest
\* run of decimal digits; NaN when there is no digit (or s is not a string)
ParseInt(s) ==
  IF s = Undefined THEN NaN
  ELSE LET t == SkipWhite(s.chars)
           neg == t # << >> /\ Head(t) = "-"
           u == IF t # << >> /\ Head(t) \in {"-", "+"} THEN Tail(t) ELSE t
       IN IF u = << >> \/ Head(u) \notin DigitChars THEN NaN
          ELSE IF neg THEN NumNeg(ParseDigits(u, Zero)) ELSE ParseDigits(u, Zero)

LAMPORTS_PER_SOL == BigOf(1000000000)

\* lamportsToSOL: the double parseInt(lamports) / 10^9, kept as the lamport
\* count (the division by the positive constant preserves order and NaN)
lamportsToSOLOrZero(lamports) == IF IsNaN(ParseInt(lamports)) THEN Zero ELSE ParseInt(lamports)

lamportsToSOL(lamports) == ParseInt(lamports)

\* --------------------------------------------------------------- timestamps

\* An event timestamp is Undefined (missing), [num |-> n] (Unix seconds, n a
\* number or NaN) or [str |-> s] (a date-time string).

NumTs(n) == [num |-> n]

StrTs(s) == [str |-> s]

\* new Date(ms).toISOString(): the canonical text of the instant ms
ToISOString(ms) == [iso |-> ms]

\* new Date("2020-01-01").getTime() = 1577836800000
MIN_VALID_TIMESTAMP == Big(157783, 6800000)

\* 86400000 ms = 24 h
DayMs == Big(8, 6400000)

\* the largest time value of a Date, 8.64e15 ms
MaxTimeValue == Big(864000000, 0)

\* new Date(s).getTime() on the date-time strings of the model
DateParse(s) ==
  IF s = Undefined THEN NaN
  ELSE IF "iso" \in DOMAIN s THEN s.iso
  ELSE CASE s.str = "2019-12-31T23:59:59.999Z" -> Big(157783, 6799999)
         [] s.str = "2020-01-01" -> Big(157783, 6800000)
         [] s.str = "2020-01-01T00:00:00.001Z" -> Big(157783, 6800001)
         [] s.str = "2024-05-30T11:00:00.000Z" -> Big(171706, 6800000)
         [] s.str = "2024-05-30T12:00:00.000Z" -> Big(171707, 400000)
         [] s.str = "2024-06-01T11:00:00.000Z" -> Big(171723, 9600000)
         [] s.str = "2024-06-02T12:00:00.000Z" -> Big(171732, 9600000)
         [] s.str = "2024-06-02T12:00:00.001Z" -> Big(171732, 9600001)
         [] OTHER -> NaN

\* s.trim() === ""
IsBlank(s) == s.str \in {"", "   "}

\* !event.timestamp : undefined, 0, NaN and "" are falsy
FalsyTs(ts) ==
  \/ ts = Undefined
  \/ "num" \in DOMAIN ts /\ (IsNaN(ts.num) \/ ts.num = Zero)
  \/ "str" \in DOMAIN ts /\ ts.str = ""

SecondsAsMs(n) == n

\* timestamp * 1000
SecondsToMs(n) == NumMul(NumMul(NumMul(n, 10), 10), 10)

CountsAfterMin(event) ==
  IF FalsyTs(event.timestamp) THEN FALSE
  ELSE LET timestampMs == IF "num" \in DOMAIN event.timestamp
                          THEN SecondsToMs(event.timestamp.num)
                          ELSE DateParse(event.timestamp)
       IN IF IsNaN(timestampMs) \/ NumLE(timestampMs, Zero) THEN FALSE
          ELSE IF NumLE(timestampMs, MIN_VALID_TIMESTAMP) THEN FALSE
          ELSE TRUE

CountsIn24h(event) ==
  IF FalsyTs(event.timestamp) THEN FALSE
  ELSE LET timestampMs == IF "num" \in DOMAIN event.timestamp
                          THEN SecondsToMs(event.timestamp.num)
                          ELSE DateParse(event.timestamp)
       IN IF IsNaN(timestampMs) \/ NumLE(timestampMs, Zero) THEN FALSE
          ELSE IF NumLT(timestampMs, MIN_VALID_TIMESTAMP) THEN FALSE
          ELSE TRUE

\* an event list is [items |-> sequence], or Undefined when the field is absent
getClaimCount24h(events) ==
  IF events = Undefined \/ events.items = << >> THEN 0
  ELSE Len(SelectSeq(events.items, CountsIn24h))

Threw == [threw |-> TRUE]

Skip == [skip |-> TRUE]

LastClaimStepInclusive(event, now) ==
  LET ts == event.timestamp IN
  IF FalsyTs(ts) THEN Skip
  ELSE IF "num" \in DOMAIN ts
  THEN LET timestampMs == SecondsToMs(ts.num) IN
       IF NumGT(timestampMs, MaxTimeValue) \/ NumLT(timestampMs, NumNeg(MaxTimeValue))
       THEN Threw
       ELSE IF NumLE(timestampMs, Zero) THEN Skip
       ELSE IF NumGE(timestampMs, MIN_VALID_TIMESTAMP) /\ NumLE(timestampMs, NumAdd(now, DayMs))
       THEN ToISOString(timestampMs)
       ELSE Skip
  ELSE IF IsBlank(ts) THEN Skip
  ELSE LET timestampMs == DateParse(ts) IN
       IF IsNaN(timestampMs) \/ NumLE(timestampMs, Zero) THEN Skip
       ELSE IF NumGE(timestampMs, MIN_VALID_TIMESTAMP) /\ NumLE(timestampMs, NumAdd(now, DayMs))
       THEN ts
       ELSE Skip

\* the loop body of getLastClaimTimestamp for one event: Skip (continue),
\* Threw (toISOString on an invalid Date raises RangeError) or the string
\* that is returned
LastClaimStep(event, now) ==
  LET ts == event.timestamp IN
  IF FalsyTs(ts) THEN Skip
  ELSE IF "num" \in DOMAIN ts
  THEN LET timestampMs == SecondsToMs(ts.num) IN
       IF NumGT(timestampMs, MaxTimeValue) \/ NumLT(timestampMs, NumNeg(MaxTimeValue))
       THEN Threw
       ELSE IF NumLE(timestampMs, Zero) THEN Skip
       ELSE IF NumGT(timestampMs, MIN_VALID_TIMESTAMP) /\ NumLT(timestampMs, NumAdd(now, DayMs))
       THEN ToISOString(timestampMs)
       ELSE Skip
  ELSE IF IsBlank(ts) THEN Skip
  ELSE LET timestampMs == DateParse(ts) IN
       IF IsNaN(timestampMs) \/ NumLE(timestampMs, Zero) THEN Skip
       ELSE IF NumGT(timestampMs, MIN_VALID_TIMESTAMP) /\ NumLT(timestampMs, NumAdd(now, DayMs))
       THEN ts
       ELSE Skip

RECURSIVE ScanFromEnd(_, _)
ScanFromEnd(events, now) ==
  IF events = << >> THEN Undefined
  ELSE LET r == LastClaimStep(events[Len(events)], now) IN
       IF r = Skip THEN ScanFromEnd(SubSeq(events, 1, Len(events) - 1), now) ELSE r

RECURSIVE ScanLastClaim(_, _)
ScanLastClaim(events, now) ==
  IF events = << >> THEN Undefined
  ELSE LET r == LastClaimStep(Head(events), now) IN
       IF r = Skip THEN ScanLastClaim(Tail(events), now) ELSE r

getLastClaimTimestamp(events, now) ==
  IF events = Undefined \/ events.items = << >> THEN Undefined
  ELSE ScanLastClaim(events.items, now)

\* 48 h in ms = 172800000
TwoDaysMs == Big(17, 2800000)

getActivityStatusActiveFirst(claimCount24h, lastClaimTimestamp, now) ==
  IF claimCount24h >= 5 THEN "Active"
  ELSE IF lastClaimTimestamp = Undefined THEN "Dead"
  ELSE LET timestamp == DateParse(lastClaimTimestamp) IN
       IF IsNaN(timestamp) THEN "Dead"
       ELSE IF claimCount24h >= 1 \/ NumLT(NumSub(now, timestamp), TwoDaysMs) THEN "Quiet"
       ELSE "Dead"

getActivityStatus(claimCount24h, lastClaimTimestamp, now) ==
  IF lastClaimTimestamp = Undefined THEN "Dead"
  ELSE LET timestamp == DateParse(lastClaimTimestamp) IN
       IF IsNaN(timestamp) THEN "Dead"
       ELSE IF claimCount24h >= 5 THEN "Active"
       ELSE IF claimCount24h >= 1 \/ NumLT(NumSub(now, timestamp), TwoDaysMs) THEN "Quiet"
       ELSE "Dead"


\* ------------------------------------------------------------------ verdict

\* 0.1 SOL, in lamports
DORMANT_FEE_THRESHOLD_SOL == BigOf(100000000)

CENTRALIZED_TOP1_THRESHOLD == 50

CENTRALIZED_TOP5_THRESHOLD == 80

\* variants of the two ladders with one rule changed
PctGE(p, k) == ~IsNaN(p) /\ NumGE(p.num, NumMul(p.den, k))

calculateVerdictAnd(lifetimeFeesSOL, top1ClaimerPct, top5ClaimerPct, claimStats) ==
  IF NumLT(lifetimeFeesSOL, DORMANT_FEE_THRESHOLD_SOL) /\ Len(claimStats) = 0
  THEN [verdict |-> "DORMANT",
        summary |-> "Minimal fee activity. Token has not generated meaningful revenue.",
        why |-> IF NumLT(lifetimeFeesSOL, DORMANT_FEE_THRESHOLD_SOL)
                THEN [text |-> "Lifetime fees below threshold", args |-> <<lifetimeFeesSOL>>]
                ELSE [text |-> "No claimers found", args |-> << >>]]
  ELSE IF PctGT(top1ClaimerPct, CENTRALIZED_TOP1_THRESHOLD)
  THEN [verdict |-> "CENTRALIZED",
        summary |-> "Single wallet controls % of claimed fees. Highly concentrated distribution.",
        why |-> [text |-> "Top 1 wallet controls % of claimed fees", args |-> <<top1ClaimerPct>>]]
  ELSE IF PctGT(top5ClaimerPct, CENTRALIZED_TOP5_THRESHOLD)
  THEN [verdict |-> "CENTRALIZED",
        summary |-> "Top 5 wallets control % of claimed fees. Distribution is heavily concentrated.",
        why |-> [text |-> "Top 5 wallets control % of claimed fees", args |-> <<top5ClaimerPct>>]]
  ELSE [verdict |-> "HEALTHY",
        summary |-> "Fees are well distributed across multiple claimers. No single wallet dominates.",
        why |-> [text |-> "Top 1 wallet: %, Top 5: %", args |-> <<top1ClaimerPct, top5ClaimerPct>>]]

calculateVerdictGE(lifetimeFeesSOL, top1ClaimerPct, top5ClaimerPct, claimStats) ==
  IF NumLT(lifetimeFeesSOL, DORMANT_FEE_THRESHOLD_SOL) \/ Len(claimStats) = 0
  THEN [verdict |-> "DORMANT",
        summary |-> "Minimal fee activity. Token has not generated meaningful revenue.",
        why |-> IF NumLT(lifetimeFeesSOL, DORMANT_FEE_THRESHOLD_SOL)
                THEN [text |-> "Lifetime fees below threshold", args |-> <<lifetimeFeesSOL>>]
                ELSE [text |-> "No claimers found", args |-> << >>]]
  ELSE IF PctGE(top1ClaimerPct, CENTRALIZED_TOP1_THRESHOLD)
  THEN [verdict |-> "CENTRALIZED",
        summary |-> "Single wallet controls % of claimed fees. Highly concentrated distribution.",
        why |-> [text |-> "Top 1 wallet controls % of claimed fees", args |-> <<top1ClaimerPct>>]]
  ELSE IF PctGE(top5ClaimerPct, CENTRALIZED_TOP5_THRESHOLD)
  THEN [verdict |-> "CENTRALIZED",
        summary |-> "Top 5 wallets control % of claimed fees. Distribution is heavily concentrated.",
        why |-> [text |-> "Top 5 wallets control % of claimed fees", args |-> <<top5ClaimerPct>>]]
  ELSE [verdict |-> "HEALTHY",
        summary |-> "Fees are well distributed across multiple claimers. No single wallet dominates.",
        why |-> [text |-> "Top 1 wallet: %, Top 5: %", args |-> <<top1ClaimerPct, top5ClaimerPct>>]]

determinePatternCreatorFirst(verdict, creatorSharePct, top1ClaimerPct, totalClaimers, claimedPct, claimers) ==
  IF PctLT(claimedPct, 30) /\ totalClaimers > 0 THEN "Abandoned fees"
  ELSE IF PctGT(creatorSharePct, 60) THEN "Creator-heavy"
  ELSE IF PctGT(top1ClaimerPct, 70) THEN "Single-extractor"
  ELSE IF totalClaimers >= 5 /\ PctLT(top1ClaimerPct, 40) THEN "Broad distribution"
  ELSE IF totalClaimers >= 2 /\ PctLT(top1ClaimerPct, 60) THEN "Multi-claimer balance"
  ELSE IF verdict = "DORMANT" THEN "Abandoned fees"
  ELSE "Creator-heavy"

determinePatternDormantFirst(verdict, creatorSharePct, top1ClaimerPct, totalClaimers, claimedPct, claimers) ==
  IF verdict = "DORMANT" THEN "Abandoned fees"
  ELSE IF PctLT(claimedPct, 30) /\ totalClaimers > 0 THEN "Abandoned fees"
  ELSE IF PctGT(top1ClaimerPct, 70) THEN "Single-extractor"
  ELSE IF PctGT(creatorSharePct, 60) THEN "Creator-heavy"
  ELSE IF totalClaimers >= 5 /\ PctLT(top1ClaimerPct, 40) THEN "Broad distribution"
  ELSE IF totalClaimers >= 2 /\ PctLT(top1ClaimerPct, 60) THEN "Multi-claimer balance"
  ELSE IF verdict = "DORMANT" THEN "Abandoned fees"
  ELSE "Creator-heavy"

\* summary and why are the code's templates; the interpolated number is kept
\* beside the template, unformatted
calculateVerdictTop1Only(lifetimeFeesSOL, top1ClaimerPct, top5ClaimerPct, claimStats) ==
  IF NumLT(lifetimeFeesSOL, DORMANT_FEE_THRESHOLD_SOL) \/ Len(claimStats) = 0
  THEN [verdict |-> "DORMANT",
        summary |-> "Minimal fee activity. Token has not generated meaningful revenue.",
        why |-> IF NumLT(lifetimeFeesSOL, DORMANT_FEE_THRESHOLD_SOL)
                THEN [text |-> "Lifetime fees below threshold", args |-> <<lifetimeFeesSOL>>]
                ELSE [text |-> "No claimers found", args |-> << >>]]
  ELSE IF PctGT(top1ClaimerPct, CENTRALIZED_TOP1_THRESHOLD)
  THEN [verdict |-> "CENTRALIZED",
        summary |-> "Single wallet controls % of claimed fees. Highly concentrated distribution.",
        why |-> [text |-> "Top 1 wallet controls % of claimed fees", args |-> <<top1ClaimerPct>>]]
  ELSE [verdict |-> "HEALTHY",
        summary |-> "Fees are well distributed across multiple claimers. No single wallet dominates.",
        why |-> [text |-> "Top 1 wallet: %, Top 5: %", args |-> <<top1ClaimerPct, top5ClaimerPct>>]]

calculateVerdict(lifetimeFeesSOL, top1ClaimerPct, top5ClaimerPct, claimStats) ==
  IF NumLT(lifetimeFeesSOL, DORMANT_FEE_THRESHOLD_SOL) \/ Len(claimStats) = 0
  THEN [verdict |-> "DORMANT",
        summary |-> "Minimal fee activity. Token has not generated meaningful revenue.",
        why |-> IF NumLT(lifetimeFeesSOL, DORMANT_FEE_THRESHOLD_SOL)
                THEN [text |-> "Lifetime fees below threshold", args |-> <<lifetimeFeesSOL>>]
                ELSE [text |-> "No claimers found", args |-> << >>]]
  ELSE IF PctGT(top1ClaimerPct, CENTRALIZED_TOP1_THRESHOLD)
  THEN [verdict |-> "CENTRALIZED",
        summary |-> "Single wallet controls % of claimed fees. Highly concentrated distribution.",
        why |-> [text |-> "Top 1 wallet controls % of claimed fees", args |-> <<top1ClaimerPct>>]]
  ELSE IF PctGT(top5ClaimerPct, CENTRALIZED_TOP5_THRESHOLD)
  THEN [verdict |-> "CENTRALIZED",
        summary |-> "Top 5 wallets control % of claimed fees. Distribution is heavily concentrated.",
        why |-> [text |-> "Top 5 wallets control % of claimed fees", args |-> <<top5ClaimerPct>>]]
  ELSE [verdict |-> "HEALTHY",
        summary |-> "Fees are well distributed across multiple claimers. No single wallet dominates.",
        why |-> [text |-> "Top 1 wallet: %, Top 5: %", args |-> <<top1ClaimerPct, top5ClaimerPct>>]]

determinePatternNoCreatorRule(verdict, creatorSharePct, top1ClaimerPct, totalClaimers, claimedPct, claimers) ==
  IF PctLT(claimedPct, 30) /\ totalClaimers > 0 THEN "Abandoned fees"
  ELSE IF PctGT(top1ClaimerPct, 70) THEN "Single-extractor"
  ELSE IF totalClaimers >= 5 /\ PctLT(top1ClaimerPct, 40) THEN "Broad distribution"
  ELSE IF totalClaimers >= 2 /\ PctLT(top1ClaimerPct, 60) THEN "Multi-claimer balance"
  ELSE IF verdict = "DORMANT" THEN "Abandoned fees"
  ELSE "Creator-heavy"

determinePatternCreatorDefault(verdict, creatorSharePct, top1ClaimerPct, totalClaimers, claimedPct, claimers) ==
  IF PctLT(claimedPct, 30) /\ totalClaimers > 0 THEN "Abandoned fees"
  ELSE IF PctGT(top1ClaimerPct, 70) THEN "Single-extractor"
  ELSE IF PctGT(creatorSharePct, 60) THEN "Creator-heavy"
  ELSE IF totalClaimers >= 5 /\ PctLT(top1ClaimerPct, 40) THEN "Broad distribution"
  ELSE IF totalClaimers >= 2 /\ PctLT(top1ClaimerPct, 60) THEN "Multi-claimer balance"
  ELSE "Creator-heavy"

determinePattern(verdict, creatorSharePct, top1ClaimerPct, totalClaimers, claimedPct, claimers) ==
  IF PctLT(claimedPct, 30) /\ totalClaimers > 0 THEN "Abandoned fees"
  ELSE IF PctGT(top1ClaimerPct, 70) THEN "Single-extractor"
  ELSE IF PctGT(creatorSharePct, 60) THEN "Creator-heavy"
  ELSE IF totalClaimers >= 5 /\ PctLT(top1ClaimerPct, 40) THEN "Broad distribution"
  ELSE IF totalClaimers >= 2 /\ PctLT(top1ClaimerPct, 60) THEN "Multi-claimer balance"
  ELSE IF verdict = "DORMANT" THEN "Abandoned fees"
  ELSE "Creator-heavy"

\* ----------------------------------------------------------------- analysis

MapGetFirst(claimStats, wallet) ==
  LET idx == {i \in 1..Len(claimStats) : claimStats[i].wallet = wallet}
  IN IF idx = {} THEN Undefined
     ELSE claimStats[CHOOSE i \in idx : \A j \in idx : i <= j]

\* new Map(claimStats.map(stat => [stat.wallet, stat])).get(wallet): the last
\* record with that wallet, Undefined when there is none
MapGet(claimStats, wallet) ==
  LET idx == {i \in 1..Len(claimStats) : claimStats[i].wallet = wallet}
  IN IF idx = {} THEN Undefined
     ELSE claimStats[CHOOSE i \in idx : \A j \in idx : j <= i]

\* claimData?.totalClaimed || "0" : undefined and "" are falsy
TotalClaimedOrZero(claimData) ==
  IF claimData = Undefined THEN StrOf(<<"0">>)
  ELSE IF claimData.totalClaimed = Undefined \/ claimData.totalClaimed = StrOf(<< >>)
  THEN StrOf(<<"0">>)
  ELSE claimData.totalClaimed

EarnsFeesOrZero(creator) == creator.royaltyBps >= 0

EarnsFees(creator) == creator.royaltyBps > 0

RECURSIVE MapClaimers(_, _)
MapClaimers(creators, claimStats) ==
  IF creators = << >> THEN << >>
  ELSE <<[wallet |-> Head(creators).wallet,
          royaltyBps |-> Head(creators).royaltyBps,
          isCreator |-> Head(creators).isCreator,
          totalClaimed |-> TotalClaimedOrZero(MapGet(claimStats, Head(creators).wallet))]>>
       \o MapClaimers(Tail(creators), claimStats)

\* insert c into the descending list after every element that does not sort
\* after it (comparator b.royaltyBps - a.royaltyBps; Array.prototype.sort is stable)
RECURSIVE InsertAscending(_, _)
InsertAscending(sorted, c) ==
  IF sorted = << >> THEN <<c>>
  ELSE IF Head(sorted).royaltyBps <= c.royaltyBps
  THEN <<Head(sorted)>> \o InsertAscending(Tail(sorted), c)
  ELSE <<c>> \o sorted

RECURSIVE InsertByRoyalty(_, _)
InsertByRoyalty(sorted, c) ==
  IF sorted = << >> THEN <<c>>
  ELSE IF Head(sorted).royaltyBps >= c.royaltyBps
  THEN <<Head(sorted)>> \o InsertByRoyalty(Tail(sorted), c)
  ELSE <<c>> \o sorted

RECURSIVE SortFrom(_, _)
SortFrom(claimers, sorted) ==
  IF claimers = << >> THEN sorted
  ELSE SortFrom(Tail(claimers), InsertByRoyalty(sorted, Head(claimers)))

SortByRoyalty(claimers) == SortFrom(claimers, << >>)

\* allClaimers after an in-place sort
MergeClaimersSorted(creators, claimStats) ==
  SortByRoyalty(MapClaimers(SelectSeq(creators, EarnsFees), claimStats))

\* allClaimers in the reverse of the creators order
MergeClaimersReversed(creators, claimStats) ==
  LET kept == MapClaimers(SelectSeq(creators, EarnsFees), claimStats)
  IN [i \in 1..Len(kept) |-> kept[Len(kept) + 1 - i]]

MergeClaimers(creators, claimStats) ==
  MapClaimers(SelectSeq(creators, EarnsFees), claimStats)

RECURSIVE SumTotalClaimed(_, _)
SumTotalClaimed(claimers, sum) ==
  IF claimers = << >> THEN sum
  ELSE SumTotalClaimed(Tail(claimers), NumAdd(sum, ParseInt(Head(claimers).totalClaimed)))

RECURSIVE SumRoyaltyBps(_, _)
SumRoyaltyBps(claimers, sum) ==
  IF claimers = << >> THEN sum
  ELSE SumRoyaltyBps(Tail(claimers), sum + Head(claimers).royaltyBps)

IsCreatorClaimed(stat) == stat.isCreator /\ NumGT(ParseInt(stat.totalClaimed), Zero)

IsCreatorFlag(stat) == stat.isCreator

Slice4(s) == SubSeq(s, 1, IF Len(s) < 4 THEN Len(s) ELSE 4)

Slice5(s) == SubSeq(s, 1, IF Len(s) < 5 THEN Len(s) ELSE 5)


\* analyzeToken(rawData), with the two clock readings it takes: now in
\* getLastClaimTimestamp and nowStatus in getActivityStatus.  The result is
\* the TokenAnalysis record, or Threw when the call raises.
analyzeToken(rawData, now, nowStatus) ==
  LET allClaimers == MergeClaimers(rawData.creators, rawData.claimStats)
      lifetimeFeesSOL == lamportsToSOL(rawData.lifetimeFees)
      totalClaimedLamports == SumTotalClaimed(allClaimers, Zero)
      claimedPct == IF NumGT(lifetimeFeesSOL, Zero)
                    THEN Pct(totalClaimedLamports, lifetimeFeesSOL)
                    ELSE PctOfInt(0)
      unclaimedPct == PctComplement(claimedPct)
      totalRoyaltyBps == SumRoyaltyBps(allClaimers, 0)
      creatorRoyaltyBps == SumRoyaltyBps(SelectSeq(allClaimers, IsCreatorFlag), 0)
      creatorSharePct == IF totalRoyaltyBps > 0
                         THEN Pct(BigOf(creatorRoyaltyBps), BigOf(totalRoyaltyBps))
                         ELSE PctOfInt(0)
      nonCreatorSharePct == PctComplement(creatorSharePct)
      sortedByRoyalty == SortByRoyalty(allClaimers)
      top1ClaimerPct == IF totalRoyaltyBps > 0 /\ Len(sortedByRoyalty) > 0
                        THEN Pct(BigOf(sortedByRoyalty[1].royaltyBps), BigOf(totalRoyaltyBps))
                        ELSE PctOfInt(0)
      top5RoyaltyBps == SumRoyaltyBps(Slice5(sortedByRoyalty), 0)
      top5ClaimerPct == IF totalRoyaltyBps > 0
                        THEN Pct(BigOf(top5RoyaltyBps), BigOf(totalRoyaltyBps))
                        ELSE PctOfInt(0)
      claimCount24h == getClaimCount24h(rawData.claimEvents.events)
      lastClaimTimestamp == getLastClaimTimestamp(rawData.claimEventsRecent.events, now)
      totalClaimers == Len(allClaimers)
      v == calculateVerdict(lifetimeFeesSOL, top1ClaimerPct, top5ClaimerPct, allClaimers)
  IN IF lastClaimTimestamp = Threw THEN Threw
     ELSE [lifetimeFeesSOL |-> lifetimeFeesSOL,
           claimedPct |-> claimedPct,
           unclaimedPct |-> unclaimedPct,
           creatorSharePct |-> creatorSharePct,
           nonCreatorSharePct |-> nonCreatorSharePct,
           top1ClaimerPct |-> top1ClaimerPct,
           top5ClaimerPct |-> top5ClaimerPct,
           claimCount24h |-> claimCount24h,
           totalClaimers |-> totalClaimers,
           lastClaimTimestamp |-> lastClaimTimestamp,
           activityStatus |-> getActivityStatus(claimCount24h, lastClaimTimestamp, nowStatus),
           claimers |-> allClaimers,
           verdict |-> v.verdict,
           summary |-> v.summary,
           why |-> v.why,
           pattern |-> determinePattern(v.verdict, creatorSharePct, top1ClaimerPct,
                                        totalClaimers, claimedPct, allClaimers)]

\* --------------------------------------------------------------- validation

Null == [null |-> TRUE]

\* !v : undefined, null, 0, NaN, false and "" are falsy
Falsy(v) ==
  \/ v = Undefined
  \/ v = Null
  \/ "num" \in DOMAIN v /\ (IsNaN(v.num) \/ v.num = Zero)
  \/ "bool" \in DOMAIN v /\ ~v.bool
  \/ "chars" \in DOMAIN v /\ v.chars = << >>

\* typeof v === "string"
IsString(v) == "chars" \in DOMAIN v

Whitespace == {" ", "\t", "\n"}

RECURSIVE TrimStart(_)
TrimStart(cs) == IF cs # << >> /\ Head(cs) \in Whitespace THEN TrimStart(Tail(cs)) ELSE cs

RECURSIVE TrimEnd(_)
TrimEnd(cs) ==
  IF cs # << >> /\ cs[Len(cs)] \in Whitespace THEN TrimEnd(SubSeq(cs, 1, Len(cs) - 1)) ELSE cs

\* mint.trim()
Trim(cs) == TrimEnd(TrimStart(cs))

MinMintLength == 32

MaxMintLength == 44

\* the character class [1-9A-HJ-NP-Za-km-z]
Base58Chars ==
  {"1", "2", "3", "4", "5", "6", "7", "8", "9"}
  \cup {"A", "B", "C", "D", "E", "F", "G", "H"}
  \cup {"J", "K", "L", "M", "N"}
  \cup {"P", "Q", "R", "S", "T", "U", "V", "W", "X", "Y", "Z"}
  \cup {"a", "b", "c", "d", "e", "f", "g", "h", "i", "j", "k"}
  \cup {"m", "n", "o", "p", "q", "r", "s", "t", "u", "v", "w", "x", "y", "z"}

\* /^[1-9A-HJ-NP-Za-km-z]+$/.test(cs)
Base58Test(cs) == cs # << >> /\ \A i \in DOMAIN cs : cs[i] \in Base58Chars

isValidTokenMintUntrimmed(mint) ==
  IF Falsy(mint) \/ ~IsString(mint) THEN FALSE
  ELSE IF Len(mint.chars) < MinMintLength \/ Len(mint.chars) > MaxMintLength THEN FALSE
  ELSE Base58Test(mint.chars)

isValidTokenMintExclusive(mint) ==
  IF Falsy(mint) \/ ~IsString(mint) THEN FALSE
  ELSE LET trimmed == Trim(mint.chars) IN
       IF Len(trimmed) <= MinMintLength \/ Len(trimmed) >= MaxMintLength THEN FALSE
       ELSE Base58Test(trimmed)

isValidTokenMint(mint) ==
  IF Falsy(mint) \/ ~IsString(mint) THEN FALSE
  ELSE LET trimmed == Trim(mint.chars) IN
       IF Len(trimmed) < MinMintLength \/ Len(trimmed) > MaxMintLength THEN FALSE
       ELSE Base58Test(trimmed)

\* ------------------------------------------------------------- rate limiter

\* rateLimitMap.get(ip) of an address the map does not hold
NoRecord == [none |-> TRUE]

RATE_LIMIT_WINDOW == 60 * 1000

MAX_REQUESTS == 5

\* Math.ceil(ms / 1000)
CeilSeconds(ms) == -((-ms) \div 1000)

Allowed == [allowed |-> TRUE]

Rejected(retryAfter) == [allowed |-> FALSE, retryAfter |-> retryAfter]

Unknown == StrOf(<<"u", "n", "k", "n", "o", "w", "n">>)

Address == StrOf(<<"1", "0", ".", "0", ".", "0", ".", "1">>)

\* the x-forwarded-for header of a request: absent, empty or an address
ForwardedFor == {Null, StrOf(<< >>), Address}

\* request.headers.get("x-forwarded-for") || "unknown"
ClientIp(header) == IF Falsy(header) THEN Unknown ELSE header

Ips == {ClientIp(header) : header \in ForwardedFor}

EmptyRateLimitMap == [i \in Ips |-> NoRecord]

checkRateLimitSix(map, ip, dnow) ==
  LET record == map[ip] IN
  IF record = NoRecord \/ dnow > record.resetTime
  THEN [map |-> [map EXCEPT ![ip] = [count |-> 1, resetTime |-> dnow + RATE_LIMIT_WINDOW]],
        rateLimit |-> Allowed]
  ELSE IF record.count > MAX_REQUESTS
  THEN [map |-> map,
        rateLimit |-> Rejected(CeilSeconds(record.resetTime - dnow))]
  ELSE [map |-> [map EXCEPT ![ip].count = @ + 1], rateLimit |-> Allowed]

\* checkRateLimit(ip) at Date.now() = dnow: the map it leaves and its result
checkRateLimit(map, ip, dnow) ==
  LET record == map[ip] IN
  IF record = NoRecord \/ dnow > record.resetTime
  THEN [map |-> [map EXCEPT ![ip] = [count |-> 1, resetTime |-> dnow + RATE_LIMIT_WINDOW]],
        rateLimit |-> Allowed]
  ELSE IF record.count >= MAX_REQUESTS
  THEN [map |-> map,
        rateLimit |-> Rejected(CeilSeconds(record.resetTime - dnow))]
  ELSE [map |-> [map EXCEPT ![ip].count = @ + 1], rateLimit |-> Allowed]

TooManyRequests(retryAfter) ==
  [status |-> 429, retryAfter |-> retryAfter, limit |-> MAX_REQUESTS, remaining |-> 0]

\* ------------------------------------------------------------ state machine

VARIABLES rawData, now, nowStatus, pc, analysis, body, mint, valid, response, upstream,
          timer, clock, calls, apiKey, rateLimitMap, dateNow, ip, rateLimit, checks,
          admitted

vars ==
  <<rawData, now, nowStatus, pc, analysis, body, mint, valid, response, upstream,
    timer, clock, calls, apiKey, rateLimitMap, dateNow, ip, rateLimit, checks,
    admitted>>

\* the variables of the five upstream requests
fetchVars == <<upstream, timer, clock, calls, apiKey>>

\* the variables of the rate limiter: the map of the module, Date.now() in
\* milliseconds since the module was loaded, the address and the result of the
\* last call, the number of calls made, and for each address the number of
\* calls allowed since the last call that found no record or an expired one
limiterVars == <<rateLimitMap, dateNow, ip, rateLimit, checks, admitted>>

NoAnalysis == [none |-> TRUE]

NoBody == [none |-> TRUE]

NoResult == [none |-> TRUE]

NoResponse == [none |-> TRUE]

NoData == [none |-> TRUE]

\* the five requests of fetchAllTokenData: lifetime fees, claim stats, claim
\* events of the last 24 h, recent claim events, creators
Endpoints == 1..5

NotFetching == [e \in Endpoints |-> "idle"]

NoTimers == [e \in Endpoints |-> "none"]

NoCalls == [e \in Endpoints |-> 0]

\* no request is being handled by the route
NoRoute ==
  /\ body = NoBody
  /\ mint = Undefined
  /\ valid = NoResult
  /\ response = NoResponse
  /\ upstream = NotFetching
  /\ timer = NoTimers
  /\ clock = 0
  /\ calls = NoCalls
  /\ apiKey = TRUE

\* no request has reached the rate limiter
NoLimiter ==
  /\ rateLimitMap = EmptyRateLimitMap
  /\ dateNow = 0
  /\ ip = Undefined
  /\ rateLimit = NoResult
  /\ checks = 0
  /\ admitted = [i \in Ips |-> 0]

\* one call of analyzeToken on the raw data of the request
AnalyzeToken ==
  /\ pc = "ready"
  /\ analysis' = analyzeToken(rawData, now, nowStatus)
  /\ pc' = IF analysis' = Threw THEN "threw" ELSE "done"
  /\ UNCHANGED <<limiterVars, rawData, now, nowStatus, body, mint, valid, response, fetchVars>>

Next == AnalyzeToken

\* one call of isValidTokenMint, as handleSubmit of the page makes it
ValidateMint ==
  /\ pc = "ready"
  /\ valid' = [result |-> isValidTokenMint(mint)]
  /\ pc' = "validated"
  /\ UNCHANGED <<limiterVars, rawData, now, nowStatus, analysis, body, mint, response, fetchVars>>

NextValidator == ValidateMint

\* ------------------------------------------------------------------ inputs

MaxCreators == 2

MaxStats == 2

RECURSIVE SeqsUpTo(_, _)
SeqsUpTo(n, S) ==
  IF n = 0 THEN {<< >>}
  ELSE LET shorter == SeqsUpTo(n - 1, S)
       IN shorter \cup {Append(q, x) : q \in {r \in shorter : Len(r) = n - 1}, x \in S}

Events(items) == [events |-> [items |-> items]]

\* 2024-06-01T12:00:00.000Z
Noon == Big(171724, 3200000)

RECURSIVE Zeros(_)
Zeros(n) == IF n = 0 THEN << >> ELSE <<"0">> \o Zeros(n - 1)

\* the decimal string made of the characters of head followed by n zeros
DecStr(head, n) == StrOf(head \o Zeros(n))

S5Sol == DecStr(<<"5">>, 9)

S1Sol == DecStr(<<"1">>, 9)

SAbc == StrOf(<<"a", "b", "c">>)

SEmpty == StrOf(<< >>)

\* lifetimeFees values: 0.05, 0.099999999, 0.1, 5 and 10 SOL, zero, a negative
\* amount, an unparseable string and a missing field
FeeStrings ==
  {DecStr(<<"5">>, 7), StrOf(<<"9", "9", "9", "9", "9", "9", "9", "9">>), DecStr(<<"1">>, 8),
   S5Sol, DecStr(<<"1">>, 10), StrOf(<<"0">>), StrOf(<<"-", "5">>), SAbc, Undefined}

MergeCreators ==
  [wallet : {"A", "B"}, royaltyBps : {0, 3000, 7000}, isCreator : BOOLEAN]

MergeStats ==
  [wallet : {"A", "C"}, royaltyBps : {1}, isCreator : {TRUE}, totalClaimed : {SEmpty, S1Sol}]

InitMerge ==
  /\ rawData \in [lifetimeFees : {S5Sol},
                  claimStats : SeqsUpTo(MaxStats, MergeStats),
                  claimEvents : {Events(<< >>)},
                  claimEventsRecent : {Events(<< >>)},
                  creators : SeqsUpTo(MaxCreators, MergeCreators)]
  /\ now = Noon
  /\ nowStatus = Noon
  /\ pc = "ready"
  /\ analysis = NoAnalysis
  /\ NoRoute
  /\ NoLimiter

SpecMerge == InitMerge /\ [][Next]_vars

\* event timestamps: missing, 0, Scenario D's 1580000000, the second of
\* 2020-01-01T00:00:00Z and the one before, a negative number, the clock
\* reading and the clock reading + 24 h, 10^13 (beyond the range of Date), and
\* date-time strings around the same instants, unparseable, empty and blank
TimestampValues ==
  {Undefined, NumTs(Zero), NumTs(BigOf(1580000000)), NumTs(BigOf(1577836800)),
   NumTs(BigOf(1577836799)), NumTs(NumNeg(BigOf(5))), NumTs(BigOf(1717243200)),
   NumTs(BigOf(1717329600)), NumTs(Big(1000000, 0))}
  \cup {StrTs(t) : t \in {"2019-12-31T23:59:59.999Z", "2020-01-01", "2020-01-01T00:00:00.001Z",
                          "2024-05-30T11:00:00.000Z", "2024-05-30T12:00:00.000Z",
                          "2024-06-01T11:00:00.000Z",
                          "2024-06-02T12:00:00.000Z", "2024-06-02T12:00:00.001Z",
                          "not-a-date", "", "   "}}

EventRecords == {[timestamp |-> t] : t \in TimestampValues}

MaxEvents == 2

EventLists == {[items |-> q] : q \in SeqsUpTo(MaxEvents, EventRecords)} \cup {Undefined}

RecentEvent == [timestamp |-> StrTs("2024-06-01T11:00:00.000Z")]

FewEventLists ==
  {[items |-> << >>], [items |-> <<RecentEvent>>],
   [items |-> <<[timestamp |-> NumTs(BigOf(1580000000))]>>],
   [items |-> <<RecentEvent, RecentEvent, RecentEvent, RecentEvent, RecentEvent>>]}

OneClaimer == <<[wallet |-> "A", royaltyBps |-> 10000, isCreator |-> TRUE]>>

\* the clock one millisecond later
NoonPlus1 == NumAdd(Noon, BigOf(1))

InitActivity ==
  /\ \E a \in EventLists, b \in FewEventLists :
       \E swap \in BOOLEAN :
         rawData = [lifetimeFees |-> S5Sol,
                    claimStats |-> << >>,
                    claimEvents |-> [events |-> IF swap THEN b ELSE a],
                    claimEventsRecent |-> [events |-> IF swap THEN a ELSE b],
                    creators |-> OneClaimer]
  /\ now = Noon
  /\ nowStatus \in {Noon, NoonPlus1}
  /\ pc = "ready"
  /\ analysis = NoAnalysis
  /\ NoRoute
  /\ NoLimiter

SpecActivity == InitActivity /\ [][Next]_vars

\* an empty creators list, or one creator, against every other input
InitEmpty ==
  /\ rawData \in [lifetimeFees : FeeStrings,
                  claimStats : SeqsUpTo(MaxStats, MergeStats),
                  claimEvents : {[events |-> e] : e \in {Undefined, [items |-> <<RecentEvent>>]}},
                  claimEventsRecent :
                    {[events |-> e] :
                       e \in {[items |-> << >>], [items |-> <<RecentEvent>>],
                              [items |-> <<[timestamp |-> NumTs(Big(1000000, 0))]>>]}},
                  creators : {<< >>} \cup {<<c>> : c \in MergeCreators}]
  /\ now = Noon
  /\ nowStatus = Noon
  /\ pc = "ready"
  /\ analysis = NoAnalysis
  /\ NoRoute
  /\ NoLimiter

SpecEmpty == InitEmpty /\ [][Next]_vars

\* royalty configurations around the thresholds of the two ladders (top-1 at
\* 40, 50, 60 and 70 per cent, top-5 at 80 per cent), in creators order
RoyaltyProfiles ==
  {<< >>, <<10000>>,
   <<5000, 5000>>, <<4000, 6000>>, <<3000, 7000>>, <<2900, 7100>>, <<3500, 6500>>,
   <<4900, 5100>>,
   <<1500, 1500, 4000, 1500, 1500>>, <<1600, 1500, 3900, 1500, 1500>>,
   <<1000, 2000, 2000, 2000, 2000, 1000>>,
   <<750, 750, 5000, 750, 750, 750, 750, 500>>,
   <<5100, 750, 750, 750, 750, 750, 650, 500>>,
   <<4900, 800, 800, 750, 750, 750, 750, 500>>,
   <<4800, 850, 800, 800, 760, 760, 730, 500>>}

MaxClaimers == 10

RECURSIVE Uniform(_, _)
Uniform(n, bps) == IF n = 0 THEN << >> ELSE Append(Uniform(n - 1, bps), bps)

UniformProfiles == {Uniform(n, 2000) : n \in 1..5} \cup {Uniform(n, 1000) : n \in 6..MaxClaimers}

WalletNames ==
  <<"w1", "w2", "w3", "w4", "w5", "w6", "w7", "w8", "w9", "w10", "w11", "w12">>

\* creators with the royalties bps, the first j of them flagged isCreator
RECURSIVE MkCreators(_, _, _)
MkCreators(bps, j, n) ==
  IF n = 0 THEN << >>
  ELSE Append(MkCreators(bps, j, n - 1),
              [wallet |-> WalletNames[n], royaltyBps |-> bps[n], isCreator |-> n <= j])

\* claimStats records of the first m wallets, each with totalClaimed = c
RECURSIVE MkStats(_, _)
MkStats(m, c) ==
  IF m = 0 THEN << >>
  ELSE Append(MkStats(m - 1, c),
              [wallet |-> WalletNames[m], royaltyBps |-> 1, isCreator |-> TRUE, totalClaimed |-> c])

\* totalClaimed values: 0, 0.299999999, 0.3, 1.5 and 2 SOL, and an unparseable string
ClaimStrings ==
  {StrOf(<<"0">>), StrOf(<<"2", "9", "9", "9", "9", "9", "9", "9", "9">>), DecStr(<<"3">>, 8),
   DecStr(<<"1", "5">>, 8), DecStr(<<"2">>, 9), SAbc}

InitClassify ==
  /\ \E bps \in RoyaltyProfiles \cup UniformProfiles :
       \E j \in 0..Len(bps), m \in {0, 1, Len(bps)}, c \in ClaimStrings, fees \in FeeStrings :
         rawData = [lifetimeFees |-> fees,
                    claimStats |-> MkStats(m, c),
                    claimEvents |-> [events |-> [items |-> << >>]],
                    claimEventsRecent |-> [events |-> [items |-> << >>]],
                    creators |-> MkCreators(bps, j, Len(bps))]
  /\ now = Noon
  /\ nowStatus = Noon
  /\ pc = "ready"
  /\ analysis = NoAnalysis
  /\ NoRoute
  /\ NoLimiter

SpecClassify == InitClassify /\ [][Next]_vars

\* Base58 characters, taken in turn
Base58Sample == <<"1", "A", "z", "9", "H", "J", "N", "P", "Z", "a", "k", "m">>

Base58Str(n) == [i \in 1..n |-> Base58Sample[((i - 1) % Len(Base58Sample)) + 1]]

PadChars == <<" ", "\t", "\n">>

Pad(k) == [i \in 1..k |-> PadChars[((i - 1) % Len(PadChars)) + 1]]

\* the largest number of whitespace characters before and after a mint
MaxPad == 2

\* the four excluded look-alikes, a punctuation mark and a space
BadChars == {"0", "O", "I", "l", "-", " "}

MintLengths ==
  {1, MinMintLength - 1, MinMintLength, MinMintLength + 1,
   MaxMintLength - 1, MaxMintLength, MaxMintLength + 1}

\* Base58 strings, and the same with one character replaced at the start, in
\* the middle or at the end
MintCores ==
  {Base58Str(n) : n \in MintLengths}
  \cup UNION {{[Base58Str(n) EXCEPT ![p] = c] : p \in {1, (n + 1) \div 2, n}, c \in BadChars} :
               n \in MintLengths}

MintStrings == {StrOf(Pad(l) \o core \o Pad(r)) : core \in MintCores, l, r \in 0..MaxPad}

NonMints ==
  {Undefined, Null, [num |-> Zero], [num |-> BigOf(12345)], [bool |-> TRUE], [bool |-> FALSE],
   StrOf(<< >>), StrOf(Pad(MaxPad))}

MintInputs == MintStrings \cup NonMints

InitValidator ==
  /\ mint \in MintInputs
  /\ rawData = [lifetimeFees |-> S5Sol,
                claimStats |-> << >>,
                claimEvents |-> [events |-> [items |-> << >>]],
                claimEventsRecent |-> [events |-> [items |-> << >>]],
                creators |-> OneClaimer]
  /\ now = Noon
  /\ nowStatus = Noon
  /\ pc = "ready"
  /\ analysis = NoAnalysis
  /\ body = NoBody
  /\ valid = NoResult
  /\ response = NoResponse
  /\ upstream = NotFetching
  /\ timer = NoTimers
  /\ clock = 0
  /\ calls = NoCalls
  /\ apiKey = TRUE
  /\ NoLimiter

SpecValidator == InitValidator /\ [][NextValidator]_vars

\* ------------------------------------------------------------------- route

\* what the upstream holds: a token with one claimer, the same with a recent
\* event beyond the range of Date, and a token without creators
RouteData ==
  {[lifetimeFees |-> S5Sol,
    claimStats |-> << >>,
    claimEvents |-> [events |-> [items |-> << >>]],
    claimEventsRecent |-> [events |-> [items |-> recent]],
    creators |-> creators] :
     recent \in {<< >>, <<RecentEvent>>, <<[timestamp |-> NumTs(Big(1000000, 0))]>>},
     creators \in {OneClaimer, << >>}}

\* a request body: request.json() rejects, or gives the parsed value
MalformedBody == [malformed |-> TRUE]

JsonBody(v) == [json |-> v]

\* const { tokenMint } = body : raises on null, undefined when the property
\* is missing
Destructure(v) ==
  IF v = Null THEN Threw
  ELSE IF "tokenMint" \in DOMAIN v THEN v.tokenMint
  ELSE Undefined

BadRequest == [status |-> 400, error |-> "Invalid Solana token mint"]

\* the answer of the catch block: status 500 with the message of the error
ServerError(message) == [status |-> 500, error |-> message]

Ok == [status |-> 200, error |-> ""]

TimeoutMessage == "Request timeout: The API took too long to respond. Please try again."

ApiErrorMessage == "Bags API error"

ApiKeyMessage == "BAGS_API_KEY not configured"

\* the handler up to its first return or to the call of fetchAllTokenData:
\* the tokenMint read, the result of isValidTokenMint when it is called, and
\* the response (NoResponse when the handler goes on to fetch)
RouteValidate(b) ==
  IF b = MalformedBody
  THEN [mint |-> Undefined, valid |-> NoResult, response |-> ServerError("SyntaxError")]
  ELSE LET tokenMint == Destructure(b.json) IN
       IF tokenMint = Threw
       THEN [mint |-> Undefined, valid |-> NoResult, response |-> ServerError("TypeError")]
       ELSE IF Falsy(tokenMint)
       THEN [mint |-> tokenMint, valid |-> NoResult, response |-> BadRequest]
       ELSE IF ~isValidTokenMint(tokenMint)
       THEN [mint |-> tokenMint, valid |-> [result |-> FALSE], response |-> BadRequest]
       ELSE [mint |-> tokenMint, valid |-> [result |-> TRUE], response |-> NoResponse]

\* POST: read the body, validate tokenMint and answer 400 or 500, or call
\* fetchAllTokenData, which starts the five calls of bagsRequest at once.
\* Without BAGS_API_KEY each of them raises before it arms its timer,
\* Promise.all rejects and the handler answers 500.
Validate ==
  /\ pc = "received"
  /\ LET r == RouteValidate(body) IN
       /\ mint' = r.mint
       /\ valid' = r.valid
       /\ IF r.response # NoResponse
          THEN /\ response' = r.response
               /\ pc' = "responded"
               /\ UNCHANGED <<upstream, timer, calls>>
          ELSE IF ~apiKey
          THEN /\ response' = ServerError(ApiKeyMessage)
               /\ pc' = "responded"
               /\ upstream' = [e \in Endpoints |-> "failed"]
               /\ calls' = [e \in Endpoints |-> calls[e] + 1]
               /\ UNCHANGED timer
          ELSE /\ response' = r.response
               /\ pc' = "fetching"
               /\ upstream' = [e \in Endpoints |-> "pending"]
               /\ timer' = [e \in Endpoints |-> "armed"]
               /\ calls' = [e \in Endpoints |-> calls[e] + 1]
  /\ UNCHANGED <<limiterVars, rawData, now, nowStatus, analysis, body, clock, apiKey>>

\* 30000 ms, the delay of the setTimeout that aborts the request
TIMEOUT_MS == 30000

\* the clock counts steps of 10 s since the five requests were started
TimeoutTicks == TIMEOUT_MS \div 10000

\* the time the model follows a request for, in steps of 10 s
MaxTicks == 4

\* the response of the handler once analyzeToken has run
Respond(a) == IF a = Threw THEN ServerError("RangeError") ELSE Ok

\* time passes; an armed timer fires when its delay is over, at the latest
Tick ==
  /\ pc # "received"
  /\ \E e \in Endpoints : upstream[e] \in {"pending", "body"}
  /\ clock < MaxTicks
  /\ \A e \in Endpoints : timer[e] = "armed" => clock < TimeoutTicks
  /\ clock' = clock + 1
  /\ UNCHANGED <<limiterVars, rawData, now, nowStatus, pc, analysis, body, mint, valid, response,
                 upstream, timer, calls, apiKey>>

\* fetch resolves with the response headers: clearTimeout, then the body is
\* awaited with response.json()
HeadersArrive(e) ==
  /\ upstream[e] = "pending"
  /\ upstream' = [upstream EXCEPT ![e] = "body"]
  /\ timer' = [timer EXCEPT ![e] = "cleared"]
  /\ UNCHANGED <<limiterVars, rawData, now, nowStatus, pc, analysis, body, mint, valid, response,
                 clock, calls, apiKey>>

\* the body arrives with success: bagsRequest returns; when it is the last of
\* the five, Promise.all resolves with the data and the handler runs
\* analyzeToken and answers
UpstreamOk(e) ==
  /\ upstream[e] = "body"
  /\ upstream' = [upstream EXCEPT ![e] = "ok"]
  /\ IF pc = "fetching" /\ \A f \in Endpoints : upstream'[f] = "ok"
     THEN /\ rawData' \in RouteData
          /\ analysis' = analyzeToken(rawData', now, nowStatus)
          /\ response' = Respond(analysis')
          /\ pc' = "responded"
     ELSE UNCHANGED <<rawData, analysis, response, pc>>
  /\ UNCHANGED <<limiterVars, now, nowStatus, body, mint, valid, timer, clock, calls, apiKey>>

UpstreamFailIgnored(e) ==
  /\ upstream[e] \in {"pending", "body"}
  /\ upstream' = [upstream EXCEPT ![e] = "failed"]
  /\ timer' = [timer EXCEPT ![e] = "cleared"]
  /\ UNCHANGED <<limiterVars, rawData, now, nowStatus, pc, analysis, body, mint, valid, response,
                 clock, calls, apiKey>>

\* the request fails: fetch rejects, or the body does not parse or reports
\* success = false.  The catch block clears the timer and raises again; the
\* first failure rejects Promise.all and the handler answers 500, the other
\* requests go on
UpstreamFail(e) ==
  /\ upstream[e] \in {"pending", "body"}
  /\ upstream' = [upstream EXCEPT ![e] = "failed"]
  /\ timer' = [timer EXCEPT ![e] = "cleared"]
  /\ IF pc = "fetching"
     THEN /\ response' = ServerError(ApiErrorMessage)
          /\ pc' = "responded"
     ELSE UNCHANGED <<response, pc>>
  /\ UNCHANGED <<limiterVars, rawData, now, nowStatus, analysis, body, mint, valid, clock, calls, apiKey>>

\* the timer fires: controller.abort() makes fetch reject with an AbortError,
\* which the catch block turns into the timeout error
TimeoutFires(e) ==
  /\ timer[e] = "armed"
  /\ clock >= TimeoutTicks
  /\ upstream' = [upstream EXCEPT ![e] = "timeout"]
  /\ timer' = [timer EXCEPT ![e] = "fired"]
  /\ IF pc = "fetching"
     THEN /\ response' = ServerError(TimeoutMessage)
          /\ pc' = "responded"
     ELSE UNCHANGED <<response, pc>>
  /\ UNCHANGED <<limiterVars, rawData, now, nowStatus, analysis, body, mint, valid, clock, calls, apiKey>>

NextRoute ==
  \/ Validate
  \/ Tick
  \/ \E e \in Endpoints : HeadersArrive(e)
  \/ \E e \in Endpoints : UpstreamOk(e)
  \/ \E e \in Endpoints : UpstreamFail(e)
  \/ \E e \in Endpoints : TimeoutFires(e)

\* tokenMint values of a request: missing or not a string, too short, too
\* long, with an excluded character, valid, valid between whitespace
RouteMints ==
  NonMints
  \cup {StrOf(Base58Str(n)) : n \in {MinMintLength - 1, MinMintLength, MaxMintLength,
                                     MaxMintLength + 1}}
  \cup {StrOf([Base58Str(MinMintLength) EXCEPT ![1] = "0"]),
        StrOf(Pad(1) \o Base58Str(MaxMintLength) \o Pad(1))}

Bodies ==
  {MalformedBody, JsonBody(Null), JsonBody([num |-> BigOf(5)]), JsonBody([other |-> TRUE])}
  \cup {JsonBody([tokenMint |-> m]) : m \in RouteMints}

InitRoute ==
  /\ body \in Bodies
  /\ rawData = NoData
  /\ now = Noon
  /\ nowStatus = Noon
  /\ pc = "received"
  /\ analysis = NoAnalysis
  /\ mint = Undefined
  /\ valid = NoResult
  /\ response = NoResponse
  /\ upstream = NotFetching
  /\ timer = NoTimers
  /\ clock = 0
  /\ calls = NoCalls
  /\ apiKey \in BOOLEAN
  /\ NoLimiter

SpecRoute == InitRoute /\ [][NextRoute]_vars

\* ----------------------------------------------------------- limiter calls

MaxChecks == 7

\* by how much Date.now() has advanced since the previous request
TimeSteps == {0, 1, 30000, RATE_LIMIT_WINDOW}

\* a call finds no record of the address, or an expired one
OpensWindow(map, i, dnow) == map[i] = NoRecord \/ dnow > map[i].resetTime

\* POST up to the rate limit check: the address of the client, the call of
\* checkRateLimit, and the 429 response when the call is rejected
CheckRateLimit(header, step) ==
  /\ pc = "limiter"
  /\ checks < MaxChecks
  /\ dateNow' = dateNow + step
  /\ ip' = ClientIp(header)
  /\ LET out == checkRateLimit(rateLimitMap, ip', dateNow') IN
     /\ rateLimitMap' = out.map
     /\ rateLimit' = out.rateLimit
     /\ response' = IF out.rateLimit.allowed THEN NoResponse
                    ELSE TooManyRequests(out.rateLimit.retryAfter)
     /\ admitted' =
          [admitted EXCEPT ![ip'] =
             (IF OpensWindow(rateLimitMap, ip', dateNow') THEN 0 ELSE @)
             + (IF out.rateLimit.allowed THEN 1 ELSE 0)]
  /\ checks' = checks + 1
  /\ UNCHANGED <<rawData, now, nowStatus, pc, analysis, body, mint, valid, fetchVars>>

NextLimiter == \E header \in ForwardedFor, step \in TimeSteps : CheckRateLimit(header, step)

InitLimiter ==
  /\ rawData = NoData
  /\ now = Noon
  /\ nowStatus = Noon
  /\ pc = "limiter"
  /\ analysis = NoAnalysis
  /\ NoRoute
  /\ NoLimiter

SpecLimiter == InitLimiter /\ [][NextLimiter]_vars

\* ------------------------------------------------------------------- claims

Done == pc = "done"

ConfigOf(c) == [wallet |-> c.wallet, royaltyBps |-> c.royaltyBps, isCreator |-> c.isCreator]

\* the number of creators[1..k] configured with a positive royalty
RECURSIVE PositiveBefore(_, _)
PositiveBefore(creators, k) ==
  IF k = 0 THEN 0
  ELSE PositiveBefore(creators, k - 1) + (IF creators[k].royaltyBps > 0 THEN 1 ELSE 0)

WalletsOf(list) == {list[i].wallet : i \in DOMAIN list}

AllWallets == WalletsOf(rawData.creators) \cup WalletsOf(rawData.claimStats)

\* C1: a wallet is among the output claimers if and only if some creators
\* record with that wallet has royaltyBps > 0; a wallet only in claimStats,
\* or only configured with royaltyBps = 0, is not a claimer.
C1_MembershipIff ==
  Done =>
    \A w \in AllWallets :
      (w \in WalletsOf(analysis.claimers))
        <=> (\E k \in DOMAIN rawData.creators :
               rawData.creators[k].wallet = w /\ rawData.creators[k].royaltyBps > 0)

\* a claimer beside a zero-royalty creator and a wallet known to claimStats only
C1_Witness ==
  /\ Done
  /\ "C" \in WalletsOf(rawData.claimStats)
  /\ \E k \in DOMAIN rawData.creators :
       rawData.creators[k].wallet = "A" /\ rawData.creators[k].royaltyBps = 0
  /\ WalletsOf(analysis.claimers) = {"B"}

\* C2: no wallet appears twice in the output claimers list, whatever the
\* input (a creators list that repeats a wallet included).
C2_NoWalletTwice ==
  Done =>
    \A i, j \in DOMAIN analysis.claimers :
      i # j => analysis.claimers[i].wallet # analysis.claimers[j].wallet

StatsIdx(w) == {j \in DOMAIN rawData.claimStats : rawData.claimStats[j].wallet = w}

ConfigFromCreators ==
  /\ Len(analysis.claimers) = PositiveBefore(rawData.creators, Len(rawData.creators))
  /\ \A k \in DOMAIN rawData.creators :
       rawData.creators[k].royaltyBps > 0 =>
         ConfigOf(analysis.claimers[PositiveBefore(rawData.creators, k)]) = rawData.creators[k]

\* C3 as stated: a claimer's totalClaimed is the totalClaimed of a claimStats
\* record with its wallet when there is one and "0" otherwise; royaltyBps and
\* isCreator are those of the creators record.
C3_Original ==
  Done =>
    /\ ConfigFromCreators
    /\ \A i \in DOMAIN analysis.claimers :
         LET c == analysis.claimers[i] IN
         IF StatsIdx(c.wallet) # {}
         THEN \E j \in StatsIdx(c.wallet) : c.totalClaimed = rawData.claimStats[j].totalClaimed
         ELSE c.totalClaimed = StrOf(<<"0">>)

\* C3 (amended): a claimer's totalClaimed is the totalClaimed of the last
\* claimStats record with its wallet when there is one and that string is not
\* empty, and "0" otherwise; royaltyBps and isCreator are those of the
\* creators record.
C3_TotalClaimedFromStats ==
  Done =>
    /\ ConfigFromCreators
    /\ \A i \in DOMAIN analysis.claimers :
         LET c == analysis.claimers[i]
             idx == StatsIdx(c.wallet)
         IN IF idx # {} /\ \E j \in idx : /\ \A l \in idx : l <= j
                                          /\ rawData.claimStats[j].totalClaimed # StrOf(<< >>)
            THEN \E j \in idx : /\ \A l \in idx : l <= j
                                /\ c.totalClaimed = rawData.claimStats[j].totalClaimed
            ELSE c.totalClaimed = StrOf(<<"0">>)

\* one claimer takes its amount from claimStats, another has no record, and
\* the claimStats record disagrees with the configuration
C3_Witness ==
  /\ Done
  /\ Len(analysis.claimers) = 2
  /\ analysis.claimers[1].wallet = "A"
  /\ analysis.claimers[1].totalClaimed = S1Sol
  /\ analysis.claimers[1].isCreator = FALSE
  /\ analysis.claimers[2].wallet = "B"
  /\ analysis.claimers[2].totalClaimed = StrOf(<<"0">>)
  /\ Len(rawData.claimStats) = 2
  /\ rawData.claimStats[1].wallet = "A"
  /\ rawData.claimStats[2].wallet = "A"

IsDescending(list) ==
  \A i, j \in DOMAIN list : i < j => list[i].royaltyBps >= list[j].royaltyBps

\* C6 as stated: the claimers list of the snapshot is sorted by royaltyBps in
\* descending order.
C6_Original == Done => IsDescending(analysis.claimers)

\* C6 (amended): the claimers list of the snapshot is the merged list in the
\* order of the creators input, not sorted; the descending order is applied
\* to a copy that only feeds top1ClaimerPct and top5ClaimerPct.
C6_ClaimersInCreatorsOrder ==
  Done =>
    /\ ConfigFromCreators
    /\ \A i \in DOMAIN analysis.claimers :
         NumGE(analysis.top1ClaimerPct.num, BigOf(100 * analysis.claimers[i].royaltyBps))

\* two claimers returned in ascending royalty order
C6_Witness ==
  /\ Done
  /\ Len(analysis.claimers) = 2
  /\ analysis.claimers[1].royaltyBps < analysis.claimers[2].royaltyBps
  /\ PctEQ(analysis.top1ClaimerPct, 70)

FeeRationale == "Lifetime fees below threshold"

NoClaimersRationale == "No claimers found"

FeesBelowThreshold == NumLT(analysis.lifetimeFeesSOL, BigOf(100000000))

\* the verdict the ladder of C4 prescribes for the metrics of the snapshot
LadderVerdict ==
  IF FeesBelowThreshold \/ analysis.totalClaimers = 0 THEN "DORMANT"
  ELSE IF PctGT(analysis.top1ClaimerPct, 50) THEN "CENTRALIZED"
  ELSE IF PctGT(analysis.top5ClaimerPct, 80) THEN "CENTRALIZED"
  ELSE "HEALTHY"

\* C4 as stated: the verdict follows the ladder, the fee rationale is given
\* whenever fees < 0.1, and "No claimers found" is given only when
\* fees >= 0.1 and there is no claimer.
C4_Original ==
  Done =>
    /\ analysis.verdict = LadderVerdict
    /\ FeesBelowThreshold => analysis.why.text = FeeRationale
    /\ analysis.why.text = NoClaimersRationale =>
         NumGE(analysis.lifetimeFeesSOL, BigOf(100000000)) /\ analysis.totalClaimers = 0

\* C4 (amended): the verdict follows the ladder (DORMANT if fees < 0.1 or no
\* claimer, else CENTRALIZED if top1 > 50, else CENTRALIZED if top5 > 80,
\* else HEALTHY, all strict); the fee rationale is given whenever fees < 0.1,
\* and "No claimers found" exactly when fees is not below 0.1 (at least 0.1,
\* or not a number) and there is no claimer.
C4_VerdictLadder ==
  Done =>
    /\ analysis.verdict = LadderVerdict
    /\ FeesBelowThreshold => analysis.why.text = FeeRationale
    /\ analysis.why.text = NoClaimersRationale
         <=> (~FeesBelowThreshold /\ analysis.totalClaimers = 0)

\* top1Pct = 50 with top5Pct = 80 and fees >= 0.1 : HEALTHY
C4_Witness ==
  /\ Done
  /\ PctEQ(analysis.top1ClaimerPct, 50)
  /\ PctEQ(analysis.top5ClaimerPct, 80)
  /\ NumGE(analysis.lifetimeFeesSOL, BigOf(100000000))
  /\ analysis.verdict = "HEALTHY"

\* C5: the pattern is the first match of: Abandoned fees (claimedPct < 30 and
\* claimers > 0), Single-extractor (top1 > 70), Creator-heavy (creator share
\* > 60), Broad distribution (claimers >= 5 and top1 < 40), Multi-claimer
\* balance (claimers >= 2 and top1 < 60), else Abandoned fees when DORMANT
\* and Creator-heavy when not.
C5_PatternLadder ==
  Done =>
    analysis.pattern =
      IF PctLT(analysis.claimedPct, 30) /\ analysis.totalClaimers > 0 THEN "Abandoned fees"
      ELSE IF PctGT(analysis.top1ClaimerPct, 70) THEN "Single-extractor"
      ELSE IF PctGT(analysis.creatorSharePct, 60) THEN "Creator-heavy"
      ELSE IF analysis.totalClaimers >= 5 /\ PctLT(analysis.top1ClaimerPct, 40)
      THEN "Broad distribution"
      ELSE IF analysis.totalClaimers >= 2 /\ PctLT(analysis.top1ClaimerPct, 60)
      THEN "Multi-claimer balance"
      ELSE IF analysis.verdict = "DORMANT" THEN "Abandoned fees"
      ELSE "Creator-heavy"

\* rule 2 wins over rule 3: one wallet above 70 per cent, creators above 60
C5_Witness ==
  /\ Done
  /\ ~PctLT(analysis.claimedPct, 30)
  /\ PctGT(analysis.top1ClaimerPct, 70)
  /\ PctGT(analysis.creatorSharePct, 60)
  /\ analysis.pattern = "Single-extractor"

\* Scenario C: five creators with royaltyBps = 2000 each, lifetimeFees =
\* "10000000000", the five claimers with totalClaimed = "2000000000" each
ScenarioC ==
  /\ Len(rawData.creators) = 5
  /\ \A k \in 1..5 : rawData.creators[k].royaltyBps = 2000
  /\ rawData.lifetimeFees = DecStr(<<"1">>, 10)
  /\ Len(analysis.claimers) = 5
  /\ \A i \in 1..5 : analysis.claimers[i].totalClaimed = DecStr(<<"2">>, 9)

\* C7 as stated: Scenario C yields top1Pct = 20, top5Pct = 100, claimedPct =
\* 100, verdict HEALTHY and pattern Broad distribution.
C7_Original ==
  (Done /\ ScenarioC) =>
    /\ PctEQ(analysis.top1ClaimerPct, 20)
    /\ PctEQ(analysis.top5ClaimerPct, 100)
    /\ PctEQ(analysis.claimedPct, 100)
    /\ analysis.verdict = "HEALTHY"
    /\ analysis.pattern = "Broad distribution"

\* C7 (amended): Scenario C yields top1Pct = 20, top5Pct = 100, claimedPct =
\* 100, verdict CENTRALIZED (top5Pct > 80), and pattern Broad distribution
\* when the creator share is at most 60 per cent (at most three of the five
\* flagged isCreator), Creator-heavy otherwise.
C7_ScenarioC ==
  (Done /\ ScenarioC) =>
    /\ PctEQ(analysis.top1ClaimerPct, 20)
    /\ PctEQ(analysis.top5ClaimerPct, 100)
    /\ PctEQ(analysis.claimedPct, 100)
    /\ analysis.verdict = "CENTRALIZED"
    /\ analysis.why.text = "Top 5 wallets control % of claimed fees"
    /\ analysis.pattern =
         IF Cardinality({k \in 1..5 : rawData.creators[k].isCreator}) <= 3
         THEN "Broad distribution" ELSE "Creator-heavy"

C7_Witness ==
  /\ Done
  /\ ScenarioC
  /\ \A k \in 1..5 : ~rawData.creators[k].isCreator
  /\ analysis.pattern = "Broad distribution"

\* Scenario A: lifetimeFees below 0.1 coin and exactly one claimer
ScenarioA == FeesBelowThreshold /\ analysis.totalClaimers = 1

\* C9 as stated: in Scenario A the verdict is DORMANT with the fee rationale
\* and the pattern is Abandoned fees, whatever the claimer has claimed.
C9_Original ==
  (Done /\ ScenarioA) =>
    /\ analysis.verdict = "DORMANT"
    /\ analysis.why.text = FeeRationale
    /\ analysis.pattern = "Abandoned fees"

\* C9 (amended): in Scenario A the verdict is DORMANT with the fee rationale;
\* the pattern is Abandoned fees when claimedPct < 30 (the claimer has claimed
\* less than 30 per cent of the fees, or the fees are not positive) and
\* Single-extractor otherwise (the one claimer holds 100 per cent).
C9_ScenarioA ==
  (Done /\ ScenarioA) =>
    /\ analysis.verdict = "DORMANT"
    /\ analysis.why.text = FeeRationale
    /\ analysis.pattern =
         IF PctLT(analysis.claimedPct, 30) THEN "Abandoned fees" ELSE "Single-extractor"

\* lifetimeFees = "50000000", one claimer that has claimed nothing
C9_Witness ==
  /\ Done
  /\ rawData.lifetimeFees = DecStr(<<"5">>, 7)
  /\ analysis.totalClaimers = 1
  /\ analysis.claimers[1].totalClaimed = StrOf(<<"0">>)
  /\ analysis.verdict = "DORMANT"
  /\ analysis.pattern = "Abandoned fees"

ScenarioDTimestamp == NumTs(BigOf(1580000000))

IsScenarioD(event) == event.timestamp = ScenarioDTimestamp

NotScenarioD(event) == ~IsScenarioD(event)

ItemsOf(events) == IF events = Undefined THEN << >> ELSE events.items

\* C8 as stated: an event with the numeric timestamp 1580000000 is excluded
\* from the 24h count and never returned as last claim.
C8_Original ==
  Done =>
    /\ analysis.claimCount24h
         <= Len(SelectSeq(ItemsOf(rawData.claimEvents.events), NotScenarioD))
    /\ analysis.lastClaimTimestamp # ToISOString(Big(158000, 0))

\* C8 (amended): 1580000000 s is 2020-01-26T00:53:20Z, after 2020-01-01: every
\* such event of the 24h list is counted in claimCount24h, and when such an
\* event comes first among the recent events it is returned as last claim.
C8_ScenarioD ==
  Done =>
    /\ analysis.claimCount24h
         >= Len(SelectSeq(ItemsOf(rawData.claimEvents.events), IsScenarioD))
    /\ (/\ ItemsOf(rawData.claimEventsRecent.events) # << >>
        /\ IsScenarioD(Head(ItemsOf(rawData.claimEventsRecent.events))))
         => analysis.lastClaimTimestamp = ToISOString(Big(158000, 0))

\* the event alone in both lists: counted, and returned as last claim
C8_Witness ==
  /\ Done
  /\ ItemsOf(rawData.claimEvents.events) = <<[timestamp |-> ScenarioDTimestamp]>>
  /\ ItemsOf(rawData.claimEventsRecent.events) = <<[timestamp |-> ScenarioDTimestamp]>>
  /\ analysis.claimCount24h = 1
  /\ analysis.lastClaimTimestamp = ToISOString(Big(158000, 0))

\* p + q = 100 for two percentages over the same denominator
PctSumIs100(p, q) ==
  /\ ~IsNaN(p)
  /\ ~IsNaN(q)
  /\ p.den = q.den
  /\ NumAdd(p.num, q.num) = NumMul(p.den, 100)

\* the lamports claimed by the claimers of the snapshot, summed
ClaimedSum == SumTotalClaimed(analysis.claimers, Zero)

FeesOf == lamportsToSOL(rawData.lifetimeFees)

\* C11: claimedPct is (claimed sum / lifetimeFees) * 100 when lifetimeFees > 0
\* and 0 otherwise, unclaimedPct is 100 - claimedPct, the two add up to 100 on
\* every input, and a claimed sum above lifetimeFees > 0 gives claimedPct > 100
\* and unclaimedPct < 0.
C11_ClaimedPlusUnclaimed ==
  Done =>
    /\ PctSumIs100(analysis.claimedPct, analysis.unclaimedPct)
    /\ NumGT(FeesOf, Zero) =>
         /\ analysis.claimedPct.num = NumMul(ClaimedSum, 100)
         /\ analysis.claimedPct.den = FeesOf
    /\ ~NumGT(FeesOf, Zero) => PctEQ(analysis.claimedPct, 0)
    /\ (NumGT(FeesOf, Zero) /\ NumGT(ClaimedSum, FeesOf)) =>
         /\ PctGT(analysis.claimedPct, 100)
         /\ PctLT(analysis.unclaimedPct, 0)

\* the royaltyBps of claimers[1..k], all of them or only those flagged isCreator
RECURSIVE BpsUpTo(_, _, _)
BpsUpTo(claimers, k, creatorsOnly) ==
  IF k = 0 THEN 0
  ELSE BpsUpTo(claimers, k - 1, creatorsOnly)
       + (IF creatorsOnly => claimers[k].isCreator THEN claimers[k].royaltyBps ELSE 0)

TotalBps == BpsUpTo(analysis.claimers, Len(analysis.claimers), FALSE)

CreatorBps == BpsUpTo(analysis.claimers, Len(analysis.claimers), TRUE)

\* C12: creatorSharePct + nonCreatorSharePct = 100 on every input; with a total
\* royaltyBps of 0 the split is 0 / 100; otherwise creatorSharePct is the
\* royaltyBps of the claimers flagged isCreator over the total royaltyBps, times
\* 100, whatever the claimers have claimed.
C12_CreatorShare ==
  Done =>
    /\ PctSumIs100(analysis.creatorSharePct, analysis.nonCreatorSharePct)
    /\ TotalBps = 0 =>
         /\ PctEQ(analysis.creatorSharePct, 0)
         /\ PctEQ(analysis.nonCreatorSharePct, 100)
    /\ TotalBps > 0 =>
         /\ analysis.creatorSharePct.num = BigOf(100 * CreatorBps)
         /\ analysis.creatorSharePct.den = BigOf(TotalBps)

\* royalties 3000 / 7000, the first claimer flagged isCreator and nothing
\* claimed by it: a 30 / 70 split
C12_Witness ==
  /\ Done
  /\ Len(analysis.claimers) = 2
  /\ analysis.claimers[1].isCreator
  /\ ~analysis.claimers[2].isCreator
  /\ analysis.claimers[1].royaltyBps = 3000
  /\ analysis.claimers[1].totalClaimed = StrOf(<<"0">>)
  /\ PctEQ(analysis.creatorSharePct, 30)
  /\ PctEQ(analysis.nonCreatorSharePct, 70)

\* C13: top1Pct <= top5Pct on every input, top1Pct being the largest royaltyBps
\* of the claimers over the total royaltyBps and top5Pct the sum of the five
\* largest over the total; both are 0 without claimers.
C13_Top1AtMostTop5 ==
  Done =>
    LET sorted == SortByRoyalty(analysis.claimers)
        n == Len(sorted)
        five == IF n < 5 THEN n ELSE 5
    IN /\ ~IsNaN(analysis.top1ClaimerPct)
       /\ ~IsNaN(analysis.top5ClaimerPct)
       /\ analysis.top1ClaimerPct.den = analysis.top5ClaimerPct.den
       /\ NumLE(analysis.top1ClaimerPct.num, analysis.top5ClaimerPct.num)
       /\ n = 0 =>
            /\ PctEQ(analysis.top1ClaimerPct, 0)
            /\ PctEQ(analysis.top5ClaimerPct, 0)
       /\ n > 0 =>
            /\ \A i \in 1..n : sorted[1].royaltyBps >= analysis.claimers[i].royaltyBps
            /\ analysis.top1ClaimerPct.num = BigOf(100 * sorted[1].royaltyBps)
            /\ analysis.top1ClaimerPct.den = BigOf(TotalBps)
            /\ analysis.top5ClaimerPct.num = BigOf(100 * BpsUpTo(sorted, five, FALSE))

\* eight claimers, the largest holding 50 per cent and the five largest 80
C13_Witness ==
  /\ Done
  /\ Len(analysis.claimers) = 8
  /\ PctEQ(analysis.top1ClaimerPct, 50)
  /\ PctEQ(analysis.top5ClaimerPct, 80)

\* 2020-01-01T00:00:00Z in ms since the epoch
Instant2020 == Big(157783, 6800000)

\* the instant a timestamp normalizes to, in ms: Unix seconds times 1000 for a
\* number, the parsed date for a string, NaN when there is none
InstantOf(ts) ==
  IF ts = Undefined THEN NaN
  ELSE IF "num" \in DOMAIN ts
  THEN (IF IsNaN(ts.num) THEN NaN ELSE NumMul(NumMul(ts.num, 100), 10))
  ELSE DateParse(ts)

AtOrAfter2020(event) ==
  /\ ~IsNaN(InstantOf(event.timestamp))
  /\ NumGE(InstantOf(event.timestamp), Instant2020)

\* C14: claimCount24h is the number of events of the 24h list whose timestamp
\* normalizes to an instant at or after 2020-01-01T00:00:00Z; a missing, zero,
\* negative, unparseable or earlier timestamp is not counted, and an empty or
\* absent list gives 0.
C14_ClaimCount24h ==
  Done =>
    /\ analysis.claimCount24h
         = Len(SelectSeq(ItemsOf(rawData.claimEvents.events), AtOrAfter2020))
    /\ ItemsOf(rawData.claimEvents.events) = << >> => analysis.claimCount24h = 0

\* an event at 2020-01-01T00:00:00Z exactly and one a second earlier: one counted
C14_Witness ==
  /\ Done
  /\ ItemsOf(rawData.claimEvents.events)
       = <<[timestamp |-> NumTs(BigOf(1577836800))], [timestamp |-> NumTs(BigOf(1577836799))]>>
  /\ analysis.claimCount24h = 1

RecentItems == ItemsOf(rawData.claimEventsRecent.events)

\* the event's instant lies strictly between 2020-01-01T00:00:00Z and now + 24 h
Qualifies(event) ==
  /\ ~IsNaN(InstantOf(event.timestamp))
  /\ NumGT(InstantOf(event.timestamp), Instant2020)
  /\ NumLT(InstantOf(event.timestamp), NumAdd(now, DayMs))

QualifyingIdx == {i \in DOMAIN RecentItems : Qualifies(RecentItems[i])}

FirstQualifying == CHOOSE i \in QualifyingIdx : \A j \in QualifyingIdx : i <= j

SinceLastClaim == NumSub(nowStatus, DateParse(analysis.lastClaimTimestamp))

NoLastClaim ==
  \/ analysis.lastClaimTimestamp = Undefined
  \/ IsNaN(DateParse(analysis.lastClaimTimestamp))

\* C16: activityStatus is Dead without a valid last-claim instant, even when
\* claimCount24h >= 5; otherwise Active when claimCount24h >= 5; otherwise
\* Quiet when claimCount24h >= 1 or fewer than 48 hours have passed since the
\* last claim; otherwise Dead.
C16_ActivityLadder ==
  Done =>
    analysis.activityStatus =
      IF NoLastClaim THEN "Dead"
      ELSE IF analysis.claimCount24h >= 5 THEN "Active"
      ELSE IF analysis.claimCount24h >= 1 \/ NumLT(SinceLastClaim, Big(17, 2800000))
      THEN "Quiet"
      ELSE "Dead"

\* five counted events in the 24h list and no recent event that qualifies
C16_Witness ==
  /\ Done
  /\ analysis.claimCount24h = 5
  /\ RecentItems # << >>
  /\ analysis.lastClaimTimestamp = Undefined
  /\ analysis.activityStatus = "Dead"

Alphanumerics ==
  {"0", "1", "2", "3", "4", "5", "6", "7", "8", "9",
   "A", "B", "C", "D", "E", "F", "G", "H", "I", "J", "K", "L", "M",
   "N", "O", "P", "Q", "R", "S", "T", "U", "V", "W", "X", "Y", "Z",
   "a", "b", "c", "d", "e", "f", "g", "h", "i", "j", "k", "l", "m",
   "n", "o", "p", "q", "r", "s", "t", "u", "v", "w", "x", "y", "z"}

\* digits and letters without 0, O, I and l
Base58Alphabet == Alphanumerics \ {"0", "O", "I", "l"}

IsBase58(cs) == \A i \in DOMAIN cs : cs[i] \in Base58Alphabet

\* cs without the whitespace before its first and after its last other character
TrimmedForm(cs) ==
  LET solid == {i \in DOMAIN cs : cs[i] \notin {" ", "\t", "\n"}} IN
  IF solid = {} THEN << >>
  ELSE SubSeq(cs, CHOOSE i \in solid : \A j \in solid : i <= j,
                  CHOOSE i \in solid : \A j \in solid : i >= j)

\* a non-empty string whose trimmed form is 32 to 44 Base58 characters
ValidMintText(v) ==
  /\ "chars" \in DOMAIN v
  /\ v.chars # << >>
  /\ Len(TrimmedForm(v.chars)) >= 32
  /\ Len(TrimmedForm(v.chars)) <= 44
  /\ IsBase58(TrimmedForm(v.chars))

Validated == pc = "validated"

\* C17: isValidTokenMint returns true if and only if its argument is a
\* non-empty string whose whitespace-trimmed form has 32 to 44 characters, all
\* of them Base58; it returns false for null, non-string and empty input.
C17_ValidIff ==
  Validated =>
    /\ valid.result <=> ValidMintText(mint)
    /\ (mint = Null \/ "chars" \notin DOMAIN mint \/ mint = StrOf(<< >>)) => ~valid.result

\* 32 Base58 characters with three whitespace characters around them: accepted
C17_Witness ==
  /\ Validated
  /\ "chars" \in DOMAIN mint
  /\ Len(mint.chars) = 35
  /\ Len(TrimmedForm(mint.chars)) = 32
  /\ valid.result

\* C18 as stated: every input string of length 31 or 45 and every input string
\* with a character outside the Base58 alphabet is rejected, and every Base58
\* string of length 32 to 44 is accepted.
C18_Original ==
  (Validated /\ "chars" \in DOMAIN mint) =>
    /\ Len(mint.chars) \in {31, 45} => ~valid.result
    /\ ~IsBase58(mint.chars) => ~valid.result
    /\ (IsBase58(mint.chars) /\ Len(mint.chars) \in 32..44) => valid.result

\* C18 (amended): length and alphabet are those of the whitespace-trimmed
\* form.  An input whose trimmed form has length 31 or 45, or holds a character
\* outside the Base58 alphabet, is rejected; a Base58 string of length 32 to 44
\* is accepted, with or without whitespace around it.
C18_TrimmedForm ==
  (Validated /\ "chars" \in DOMAIN mint) =>
    /\ Len(TrimmedForm(mint.chars)) \in {31, 45} => ~valid.result
    /\ ~IsBase58(TrimmedForm(mint.chars)) => ~valid.result
    /\ (IsBase58(TrimmedForm(mint.chars)) /\ Len(TrimmedForm(mint.chars)) \in 32..44)
         => valid.result

\* an input of length 45, 44 Base58 characters and one whitespace character,
\* is accepted
C18_Witness ==
  /\ Validated
  /\ "chars" \in DOMAIN mint
  /\ Len(mint.chars) = 45
  /\ ~IsBase58(mint.chars)
  /\ Len(TrimmedForm(mint.chars)) = 44
  /\ valid.result

\* the tokenMint of the request, Undefined when the body carries none
TokenMintOf(b) ==
  IF b = MalformedBody THEN Undefined
  ELSE IF b.json = Null THEN Undefined
  ELSE IF "tokenMint" \in DOMAIN b.json THEN b.json.tokenMint
  ELSE Undefined

FetchStarted == \E e \in Endpoints : upstream[e] # "idle"

\* C19: the upstream fetch and analyzeToken start only after isValidTokenMint
\* has returned true for the request's tokenMint; a request whose tokenMint is
\* missing or invalid is answered with status 400, never 500, without fetch
\* and without analysis.
C19_ValidationGate ==
  /\ (FetchStarted \/ analysis # NoAnalysis) =>
       /\ valid = [result |-> TRUE]
       /\ ValidMintText(TokenMintOf(body))
  /\ (pc = "responded" /\ ~ValidMintText(TokenMintOf(body))) =>
       /\ response.status = 400
       /\ ~FetchStarted
       /\ analysis = NoAnalysis

\* the claimed sum when a totalClaimed that does not parse counts as zero
RECURSIVE LenientSum(_, _)
LenientSum(claimers, k) ==
  IF k = 0 THEN Zero
  ELSE NumAdd(LenientSum(claimers, k - 1),
              IF IsNaN(ParseInt(claimers[k].totalClaimed)) THEN Zero
              ELSE ParseInt(claimers[k].totalClaimed))

\* C20: analyzeToken has no error outcome, and a totalClaimed that does not
\* parse counts as zero in the claimed sum, so that claimedPct and
\* unclaimedPct are always defined numbers.
C20_DefinedPercentages ==
  pc # "ready" =>
    /\ Done
    /\ ~IsNaN(analysis.claimedPct)
    /\ ~IsNaN(analysis.unclaimedPct)
    /\ NumGT(FeesOf, Zero) =>
         analysis.claimedPct.num
           = NumMul(LenientSum(analysis.claimers, Len(analysis.claimers)), 100)

Failed(e) == upstream[e] \in {"failed", "timeout"}

AllSucceeded == \A e \in Endpoints : upstream[e] = "ok"

\* C21: the five upstream requests are issued together, and raw data is
\* returned only when all five have succeeded; once one of them has failed or
\* timed out, in whatever order the requests complete, the handler has
\* answered with an error, analyzeToken has not run and no snapshot exists.
C21_AllOrNothing ==
  /\ FetchStarted => \A e \in Endpoints : upstream[e] # "idle" /\ calls[e] = 1
  /\ rawData # NoData => AllSucceeded
  /\ analysis # NoAnalysis => AllSucceeded
  /\ (pc = "responded" /\ response.status = 200) => AllSucceeded
  /\ (\E e \in Endpoints : Failed(e)) =>
       /\ pc = "responded"
       /\ response.status = 500
       /\ rawData = NoData
       /\ analysis = NoAnalysis

\* four requests have succeeded and the fifth has timed out
C21_Witness ==
  /\ \A e \in 1..4 : upstream[e] = "ok"
  /\ upstream[5] = "timeout"
  /\ pc = "responded"
  /\ response = ServerError(TimeoutMessage)
  /\ analysis = NoAnalysis

InFlight(e) == upstream[e] \in {"pending", "body"}

Settled(e) == upstream[e] \in {"ok", "failed", "timeout"}

\* C22: every upstream call is over, with its data or with a failure, at most
\* 30 s after it was started; a call that timed out fails with the timeout
\* message and no other failure does; no timer stays armed once its call is
\* over; each endpoint is requested at most once per analysis.
C22_BoundedCalls ==
  /\ \A e \in Endpoints : InFlight(e) => clock <= TimeoutTicks
  /\ \A e \in Endpoints : Settled(e) => timer[e] # "armed"
  /\ \A e \in Endpoints : calls[e] <= 1
  /\ (pc = "responded" /\ response.error = TimeoutMessage) =>
       \E e \in Endpoints : upstream[e] = "timeout"
  /\ (\E e \in Endpoints : upstream[e] = "timeout") =>
       \/ response.error = TimeoutMessage
       \/ \E e \in Endpoints : upstream[e] = "failed"

\* the snapshot of a second evaluation whose creators and claimStats are both
\* the claimers of the snapshot, lifetimeFees and the event lists unchanged
RoundTrip ==
  analyzeToken([rawData EXCEPT !.creators = analysis.claimers,
                               !.claimStats = analysis.claimers],
               now, nowStatus)

\* C23: round trip.  Merging the output claimers with themselves, as creators
\* and as claimStats, gives the same claimers in the same order, and the same
\* claimedPct, creatorSharePct, top1Pct and top5Pct.
C23_RoundTrip ==
  Done =>
    /\ MergeClaimers(analysis.claimers, analysis.claimers) = analysis.claimers
    /\ LET again == RoundTrip IN
       /\ again.claimers = analysis.claimers
       /\ again.claimedPct = analysis.claimedPct
       /\ again.creatorSharePct = analysis.creatorSharePct
       /\ again.top1ClaimerPct = analysis.top1ClaimerPct
       /\ again.top5ClaimerPct = analysis.top5ClaimerPct

\* two claimers with different wallets and royalties, one of which has claimed
C23_Witness ==
  /\ Done
  /\ Len(analysis.claimers) = 2
  /\ analysis.claimers[1].wallet # analysis.claimers[2].wallet
  /\ analysis.claimers[1].royaltyBps = 3000
  /\ analysis.claimers[2].royaltyBps = 7000
  /\ analysis.claimers[1].totalClaimed = S1Sol
  /\ analysis.claimers[2].totalClaimed = StrOf(<<"0">>)
  /\ RoundTrip.claimers = analysis.claimers

\* other clock readings: a millisecond, a day and two days later, a day earlier
OtherTimes ==
  {NoonPlus1, NumAdd(Noon, DayMs), NumAdd(Noon, TwoDaysMs), NumSub(Noon, DayMs)}

\* the fields of a snapshot that do not depend on the clock
TimelessFields(a) ==
  [lifetimeFeesSOL |-> a.lifetimeFeesSOL,
   claimedPct |-> a.claimedPct,
   unclaimedPct |-> a.unclaimedPct,
   creatorSharePct |-> a.creatorSharePct,
   nonCreatorSharePct |-> a.nonCreatorSharePct,
   top1ClaimerPct |-> a.top1ClaimerPct,
   top5ClaimerPct |-> a.top5ClaimerPct,
   claimCount24h |-> a.claimCount24h,
   totalClaimers |-> a.totalClaimers,
   claimers |-> a.claimers,
   verdict |-> a.verdict,
   summary |-> a.summary,
   why |-> a.why,
   pattern |-> a.pattern]

\* C24: the snapshot depends on the inputs and on the clock only, and the
\* clock decides nothing but lastClaimTimestamp and activityStatus: the same
\* inputs evaluated at another time give a snapshot with the same verdict,
\* summary, why, pattern, claimers, percentages, totalClaimers and
\* claimCount24h (and an evaluation that raises does so at any time).
C24_TimeIndependent ==
  \A t \in OtherTimes :
    /\ pc = "threw" => analyzeToken(rawData, t, t) = Threw
    /\ Done =>
         /\ analyzeToken(rawData, t, t) # Threw
         /\ TimelessFields(analyzeToken(rawData, t, t)) = TimelessFields(analysis)

\* C25: verdict and pattern are decoupled.  HEALTHY together with
\* Creator-heavy is a reachable combination; it is produced by the creator
\* rule (creatorSharePct > 60) when no earlier pattern rule matched, that is
\* claimedPct not below 30 and top1Pct not above 70, and every HEALTHY
\* snapshot with these values has the pattern Creator-heavy.
C25_HealthyCreatorHeavy ==
  Done =>
    /\ (analysis.verdict = "HEALTHY" /\ analysis.pattern = "Creator-heavy") =>
         /\ PctGT(analysis.creatorSharePct, 60)
         /\ ~PctLT(analysis.claimedPct, 30)
         /\ ~PctGT(analysis.top1ClaimerPct, 70)
    /\ (/\ analysis.verdict = "HEALTHY"
        /\ PctGT(analysis.creatorSharePct, 60)
        /\ ~PctLT(analysis.claimedPct, 30)) => analysis.pattern = "Creator-heavy"

\* ten claimers of 10 per cent each, more than six of them creators
C25_Witness ==
  /\ Done
  /\ analysis.totalClaimers = 10
  /\ analysis.verdict = "HEALTHY"
  /\ analysis.pattern = "Creator-heavy"
  /\ PctEQ(analysis.top1ClaimerPct, 10)

\* C26: HEALTHY implies at least six claimers.  With one to five claimers
\* top5Pct = 100, so the verdict is DORMANT or CENTRALIZED.
C26_HealthyNeedsSix ==
  Done =>
    /\ analysis.totalClaimers \in 1..5 =>
         /\ PctEQ(analysis.top5ClaimerPct, 100)
         /\ analysis.verdict \in {"DORMANT", "CENTRALIZED"}
    /\ analysis.verdict = "HEALTHY" => analysis.totalClaimers >= 6

\* five claimers of 20 per cent each with fees of 10 SOL: CENTRALIZED by the
\* top-5 rule; and six is enough for HEALTHY elsewhere
C26_Witness ==
  /\ Done
  /\ analysis.totalClaimers = 5
  /\ PctEQ(analysis.top1ClaimerPct, 20)
  /\ rawData.lifetimeFees = DecStr(<<"1">>, 10)
  /\ analysis.verdict = "CENTRALIZED"
  /\ analysis.why.text = "Top 5 wallets control % of claimed fees"

\* no rule of the pattern ladder before the fallback matches
FallbackReached ==
  /\ ~(PctLT(analysis.claimedPct, 30) /\ analysis.totalClaimers > 0)
  /\ ~PctGT(analysis.top1ClaimerPct, 70)
  /\ ~PctGT(analysis.creatorSharePct, 60)
  /\ ~(analysis.totalClaimers >= 5 /\ PctLT(analysis.top1ClaimerPct, 40))
  /\ ~(analysis.totalClaimers >= 2 /\ PctLT(analysis.top1ClaimerPct, 60))

\* at least two claimers, 60 <= top1Pct <= 70, creatorSharePct <= 60 and
\* claimedPct not below 30
SecondSituation ==
  /\ analysis.totalClaimers >= 2
  /\ PctGE(analysis.top1ClaimerPct, 60)
  /\ ~PctGT(analysis.top1ClaimerPct, 70)
  /\ ~PctGT(analysis.creatorSharePct, 60)
  /\ ~PctLT(analysis.claimedPct, 30)

\* C27 as stated: the fallback is reached only without claimers (DORMANT,
\* Abandoned fees) or in the second situation, where the verdict is not
\* HEALTHY and the pattern is Creator-heavy.
C27_Original ==
  (Done /\ FallbackReached) =>
    \/ /\ analysis.totalClaimers = 0
       /\ analysis.verdict = "DORMANT"
       /\ analysis.pattern = "Abandoned fees"
    \/ /\ SecondSituation
       /\ analysis.verdict # "HEALTHY"
       /\ analysis.pattern = "Creator-heavy"

\* C27 (amended): in the second situation the verdict is CENTRALIZED with the
\* fallback pattern Creator-heavy, or DORMANT (lifetimeFees below 0.1) with the
\* fallback pattern Abandoned fees.
C27_FallbackRule ==
  (Done /\ FallbackReached) =>
    \/ /\ analysis.totalClaimers = 0
       /\ analysis.verdict = "DORMANT"
       /\ analysis.pattern = "Abandoned fees"
    \/ /\ SecondSituation
       /\ \/ analysis.verdict = "CENTRALIZED" /\ analysis.pattern = "Creator-heavy"
          \/ /\ analysis.verdict = "DORMANT"
             /\ FeesBelowThreshold
             /\ analysis.pattern = "Abandoned fees"

\* two claimers at 35 and 65 per cent, none a creator, fees below 0.1 SOL and
\* more than 30 per cent of them claimed: DORMANT, Abandoned fees by the fallback
C27_Witness ==
  /\ Done
  /\ FallbackReached
  /\ analysis.totalClaimers = 2
  /\ PctEQ(analysis.top1ClaimerPct, 65)
  /\ PctEQ(analysis.creatorSharePct, 0)
  /\ analysis.verdict = "DORMANT"
  /\ analysis.pattern = "Abandoned fees"

FeesUnparsed == IsNaN(ParseInt(rawData.lifetimeFees))

\* C28: with lifetimeFees missing or unparseable and at least one claimer,
\* analyzeToken returns a snapshot with claimedPct = 0 and unclaimedPct = 100
\* whose verdict is decided by top1Pct and top5Pct alone, never DORMANT.
C28_FeesMissing ==
  (pc # "ready" /\ FeesUnparsed /\ MergeClaimers(rawData.creators, rawData.claimStats) # << >>) =>
    /\ Done
    /\ PctEQ(analysis.claimedPct, 0)
    /\ PctEQ(analysis.unclaimedPct, 100)
    /\ analysis.verdict =
         IF PctGT(analysis.top1ClaimerPct, 50) \/ PctGT(analysis.top5ClaimerPct, 80)
         THEN "CENTRALIZED" ELSE "HEALTHY"

\* lifetimeFees missing, ten claimers of 10 per cent each: HEALTHY
C28_Witness ==
  /\ Done
  /\ rawData.lifetimeFees = Undefined
  /\ analysis.totalClaimers = 10
  /\ PctEQ(analysis.claimedPct, 0)
  /\ analysis.verdict = "HEALTHY"

\* the events of the two lists of the request
EventsOfRequest ==
  {ItemsOf(rawData.claimEvents.events)[i] : i \in DOMAIN ItemsOf(rawData.claimEvents.events)}
  \cup {RecentItems[i] : i \in DOMAIN RecentItems}

\* the last-claim scan would return this event
EligibleAsLastClaim(event) == LastClaimStep(event, now) \notin {Skip, Threw}

\* the instant is 2020-01-01T00:00:00Z exactly, or at or after now + 24 h
OnTheEdge(event) ==
  /\ ~IsNaN(InstantOf(event.timestamp))
  /\ \/ InstantOf(event.timestamp) = Instant2020
     \/ NumGE(InstantOf(event.timestamp), NumAdd(now, DayMs))

\* C29: the window of the 24h count is wider than that of the last-claim
\* scan.  An event the scan would return is counted by the count rule; an event
\* at 2020-01-01T00:00:00Z exactly, or at or after now + 24 h, is counted and
\* never returned as last claim.
C29_WiderCountWindow ==
  /\ \A event \in EventsOfRequest :
       /\ EligibleAsLastClaim(event) => CountsIn24h(event)
       /\ OnTheEdge(event) => CountsIn24h(event) /\ ~EligibleAsLastClaim(event)
  /\ Done =>
       /\ analysis.claimCount24h
            >= Len(SelectSeq(ItemsOf(rawData.claimEvents.events), OnTheEdge))
       /\ analysis.lastClaimTimestamp # Undefined =>
            /\ NumGT(DateParse(analysis.lastClaimTimestamp), Instant2020)
            /\ NumLT(DateParse(analysis.lastClaimTimestamp), NumAdd(now, DayMs))

\* the two edges in the recent list, 2020-01-01 and now + 24 h: no last claim,
\* though the count rule accepts both
C29_Witness ==
  /\ Done
  /\ RecentItems = <<[timestamp |-> StrTs("2020-01-01")],
                     [timestamp |-> NumTs(BigOf(1717329600))]>>
  /\ CountsIn24h(RecentItems[1])
  /\ CountsIn24h(RecentItems[2])
  /\ analysis.lastClaimTimestamp = Undefined

\* the last call was rejected
LastRejected == rateLimit # NoResult /\ ~rateLimit.allowed

\* what holds after every call: no address has more than five allowed calls
\* in its window, and a rejection carries a retryAfter from 0 to 60
LimiterState ==
  /\ \A i \in Ips : admitted[i] <= 5
  /\ LastRejected => rateLimit.retryAfter \in 0..60 /\ response.status = 429

\* what every call does: opening a window sets resetTime = now + 60 s, a
\* rejection leaves the map as it was, and no call touches another address
LimiterStep ==
  /\ OpensWindow(rateLimitMap, ip', dateNow') =>
       /\ rateLimit'.allowed
       /\ rateLimitMap'[ip'] = [count |-> 1, resetTime |-> dateNow' + 60000]
  /\ ~rateLimit'.allowed => rateLimitMap' = rateLimitMap
  /\ \A i \in Ips \ {ip'} : rateLimitMap'[i] = rateLimitMap[i]

\* C30: for calls of checkRateLimit with a non-decreasing clock, at most 5
\* calls of one address are allowed from the call that opens a window
\* (resetTime = now + 60 s) until a call arrives with now > resetTime; every
\* further call in the window is rejected with 0 <= retryAfter <= 60 and
\* leaves count and resetTime as they were; calls of other addresses never
\* change the record of this one.
C30_RateLimit == []LimiterState /\ [][LimiterStep]_vars

\* a sixth call in the window of an address is rejected, after the other
\* address was served
C30_Witness ==
  /\ LastRejected
  /\ admitted[ip] = 5
  /\ rateLimitMap[ip].count = 5
  /\ \E i \in Ips \ {ip} : admitted[i] >= 1

====
